---- MODULE Spec2Model ----
(***************************************************************************)
(* Cross-thread dispatch of R evaluations in the DuckDB R UDF extension    *)
(* (inst/duckdb_r_udf_extension/r_udf.c).                                  *)
(*                                                                         *)
(* Threads: thread 0 is the thread that runs the R interpreter and its     *)
(* event loop; threads 1..NWorkers are DuckDB worker threads.  Every       *)
(* thread has a call stack of frames; only the top frame takes steps.  A   *)
(* frame is pushed on a non-empty stack only from inside the R runtime     *)
(* (R code calling back into the extension, or R's event loop running the  *)
(* input handler while an R evaluation is in progress).  The request or    *)
(* result object of a call is a local of its function, so it lives in the  *)
(* call's frame and is named by <<thread, depth>>.                         *)
(***************************************************************************)
EXTENDS Integers, Sequences, FiniteSets, TLC

\* ------------------------------------------------------------- bounds
NWorkers == 1
MaxDepth == 2
MaxLive == 2
MaxInitFail == 1
NChanThreads == 2
MaxMsgs == 2
PipeCap == 1
MaxAbs == 2
MaxTime == 3
RelTimeout == 2
MaxLen == 2
MaxScans == 3

\* nanoseconds in a second, the carry test of cond_timedwait
NSEC_PER_SEC == 1000000000

\* sizeof(buf) in r_chan_drain_signal
DrainBuf == 64

RMainThread == 0
Threads == 0..NWorkers
NoThread == -1
NoRef == <<NoThread, 0>>

\* what one run of the R callback under R_ToplevelExec can end in
RuntimeOutcomes == {"VALUE", "EVAL_ERROR", "ABORTED"}

VARIABLES
    g_async_initialized,  \* r_udf.c:85
    g_in_r_call,          \* r_udf.c:86
    g_r_main_thread,      \* r_udf.c:87
    g_request_pipe,       \* r_udf.c:90  <<read end, write end>>
    g_input_handler,      \* r_udf.c:91  0 is NULL
    g_init_mutex,         \* r_udf.c:94  holder, or NoThread
    pipeBuf,              \* request pointers written to the pipe and not yet read
    stack,                \* per thread: its call stack, requests included
    snap,                 \* history: requests that were in the pipe when the
                          \* owner thread began its own call, not yet completed
    hist,                 \* history of r_udf_init_async_handler
    chan,                 \* the r_chan_t of r_chan.c
    cthread,              \* per channel thread: the r_chan call it is in
    chist,                \* history of the channel: the send calls made, the
                          \* messages in the order they were linked in (enq)
                          \* and unlinked (deq), those cleanup freed, the
                          \* length when is_closed was set, the doorbell
                          \* writes that found the pipe full, and the order
                          \* in which the latest callback drained pipe and
                          \* queue
    timer,                \* the clock and the deadlines of the timed waits
    conv                  \* a typed result and the output value made from it,
                          \* or one call of an entry point from the call to the row

\* the variables of the dispatch code of r_udf.c, and those of r_chan.c
dispatchVars == <<g_async_initialized, g_in_r_call, g_r_main_thread, g_request_pipe,
                  g_input_handler, g_init_mutex, pipeBuf, stack, snap, hist>>
chanVars == <<chan, cthread, chist, timer>>
vars == <<dispatchVars, chanVars, conv>>

globals == <<g_async_initialized, g_in_r_call, g_r_main_thread, g_request_pipe,
             g_input_handler, g_init_mutex>>

\* ------------------------------------------------------------- helpers
\* A frame: the function (op), where it is (pc), and the fields of its
\* r_udf_request_t (r_udf.c:73-82) or r_typed_result_t (r_udf.c:119-149).
\* type is the request's r_udf_request_type_t (r_udf.c:66-70), "none" in a
\* frame that holds no request.  ref is the request pointer a handler frame
\* read from the pipe; rt and atInit are history: what the runtime produced
\* for this call, and g_async_initialized as the call read it.
NoFrame ==
    [op |-> "none", pc |-> "none", type |-> "none", ref |-> NoRef,
     result |-> "unset", error |-> 0, done |-> 0, mutex |-> "uninit",
     rt |-> "none", atInit |-> 0]

Depth(t) == Len(stack[t])
Idle(t) == stack[t] = <<>>
Top(t) == stack[t][Len(stack[t])]
AtPc(t, ops, pc) == ~Idle(t) /\ Top(t).op \in ops /\ Top(t).pc = pc
Pop(t) == [stack EXCEPT ![t] = SubSeq(@, 1, Len(@) - 1)]
Push(t, f) == [stack EXCEPT ![t] = Append(@, f)]
SetTop(st, t, f) == [st EXCEPT ![t] = [@ EXCEPT ![Len(@)] = f]]
Frames == {<<t, d>> : t \in Threads, d \in 1..MaxDepth}
Exists(q) == q[1] \in Threads /\ q[2] \in 1..Len(stack[q[1]])
FrameAt(q) == stack[q[1]][q[2]]
\* the request of frame q: the frame's own, or for a handler the one it read
ReqOf(q) == IF FrameAt(q).op = "handler" THEN FrameAt(q).ref ELSE q
SetReq(st, q, f) == IF Exists(q) THEN [st EXCEPT ![q[1]] = [@ EXCEPT ![q[2]] = f]] ELSE st

\* the kernel pipe object made by the k-th successful pipe() call
PipeFds(k) == <<2 * k + 1, 2 * k + 2>>

\* is_r_main_thread(), r_udf.c:97
is_r_main_thread(t) == t = g_r_main_thread

\* A thread may enter the extension when it is idle, or from R code that is
\* being evaluated on it (a nested call).
InRuntime(t) == ~Idle(t) /\ Top(t).pc = "g_run"
CanEnter(t) == Idle(t) \/ (InRuntime(t) /\ Depth(t) < MaxDepth)
\* calls of entry points in progress, over all threads
LiveCalls == Cardinality({q \in Frames : Exists(q) /\ FrameAt(q).op # "handler"})
CanCall(t) == CanEnter(t) /\ LiveCalls < MaxLive

\* the statics of r_udf.c as the loader leaves them
DispatchInit ==
    /\ g_async_initialized = 0
    /\ g_in_r_call = 0
    /\ g_r_main_thread = NoThread
    /\ g_request_pipe = <<-1, -1>>
    /\ g_input_handler = 0
    /\ g_init_mutex = NoThread
    /\ pipeBuf = <<>>
    /\ stack = [t \in Threads |-> <<>>]
    /\ snap = {}
    /\ hist = [initFails |-> 0, pipesCreated |-> 0, pipesOpen |-> 0,
               handlersRegistered |-> 0, initRets |-> {}]

\* ------------------------------------------------------ the channel state
\* Threads that use the channel.  A thread is in at most one r_chan call.
CThreads == 1..NChanThreads
\* the timeout argument: R_CHAN_NO_WAIT, R_CHAN_NO_TIMEOUT (r_chan.c:23-24),
\* or a pointer to a relative timespec
Timeouts == {"NO_WAIT", "NO_TIMEOUT", "RELATIVE"}

\* the nodes a send can allocate, each named by the message it carries;
\* 0 is NULL
Nodes == 1..MaxMsgs
\* An r_chan_t as its initialiser leaves it.  head and tail are the two
\* pointers, next the next field of every node (0 in a node that is not
\* linked in), len the len field, q the messages queued in the order their
\* nodes were linked in, mtx the thread holding the mutex (0: none), waiters
\* the threads blocked on not_empty, signal_pipe the two descriptors,
\* doorbell the bytes in the pipe; destroyed is set by r_chan_cleanup.
r_chan_init ==
    [q |-> <<>>, head |-> 0, tail |-> 0, next |-> [n \in Nodes |-> 0],
     len |-> 0, is_closed |-> FALSE, mtx |-> 0, waiters |-> {},
     signal_pipe |-> <<-1, -1>>, doorbell |-> 0, destroyed |-> FALSE]

\* A thread outside every r_chan call.  In a call: op is the function, pc
\* where the thread is in it, msg the message sent or received, timeout the
\* timeout argument of recv, rv the value returned (or the rv local of
\* r_chan_recv), cb the caller when the call is made by the event-loop
\* callback.
NoCall ==
    [op |-> "none", pc |-> "none", msg |-> 0, timeout |-> "NONE", rv |-> "NONE",
     cb |-> "none"]

CIdle(p) == cthread[p] = NoCall
CAt(p, op, pc) == cthread[p].op = op /\ cthread[p].pc = pc
\* a thread may call the channel while it is in no call, the channel has
\* not been cleaned up and no cleanup is in progress
CanBegin(p) ==
    /\ CIdle(p)
    /\ ~chan.destroyed
    /\ \A w \in CThreads : cthread[w].cb # "cleanup"


\* The clock (CLOCK_REALTIME, in ticks), and for a recv with a relative
\* timeout the time at which the call first went to its wait (start) and
\* the abs_time of the pthread_cond_timedwait it is in; -1 where there is
\* none.  The clock is
\* followed only where the waits are timed.
NoTimer == [now |-> 0, start |-> [p \in CThreads |-> -1],
            abs_time |-> [p \in CThreads |-> -1]]

ChanInit ==
    /\ timer = NoTimer
    /\ chan = r_chan_init
    /\ cthread = [p \in CThreads |-> NoCall]
    /\ chist = [nsend |-> 0, enq |-> <<>>, deq |-> <<>>, discarded |-> {},
                backlog |-> -1, full |-> 0, order |-> "none"]

\* no conversion in progress
NoConv == [pc |-> "none"]

Init ==
    /\ DispatchInit
    /\ ChanInit
    /\ conv = NoConv

\* ------------------------------------------------- r_udf_init_async_handler
\* Mutant: the already-initialized test is missing.
r_udf_init_async_handler_Begin_NoCheck(t) ==
    /\ Idle(t)
    /\ g_init_mutex = NoThread
    /\ LiveCalls < MaxLive
    /\ hist.pipesCreated <= MaxInitFail
    /\ g_init_mutex' = t
    /\ g_r_main_thread' = t
    /\ stack' = Push(t, [NoFrame EXCEPT !.op = "init", !.pc = "i_pipe"])
    /\ UNCHANGED <<g_async_initialized, g_in_r_call, g_request_pipe,
                   g_input_handler, hist, pipeBuf, snap>>
    /\ UNCHANGED <<chanVars, conv>>

\* lines 460-468: lock; already initialized -> unlock, return 0; else record
\* the calling thread as R's main thread.
r_udf_init_async_handler_Begin(t) ==
    /\ Idle(t)
    /\ g_init_mutex = NoThread
    /\ IF g_async_initialized = 1
       THEN /\ hist' = [hist EXCEPT !.initRets = @ \cup {<<1, 0>>}]
            /\ UNCHANGED <<globals, stack>>
       ELSE /\ LiveCalls < MaxLive
            /\ g_init_mutex' = t
            /\ g_r_main_thread' = t
            /\ stack' = Push(t, [NoFrame EXCEPT !.op = "init", !.pc = "i_pipe"])
            /\ UNCHANGED <<g_async_initialized, g_in_r_call, g_request_pipe,
                           g_input_handler, hist>>
    /\ UNCHANGED <<pipeBuf, snap>>
    /\ UNCHANGED <<chanVars, conv>>

\* lines 472-475: pipe(g_request_pipe); on failure unlock and return -1.
r_udf_init_async_handler_Pipe(t) ==
    /\ AtPc(t, {"init"}, "i_pipe")
    /\ \E ok \in BOOLEAN :
         IF ok
         THEN /\ g_request_pipe' = PipeFds(hist.pipesCreated + 1)
              /\ hist' = [hist EXCEPT !.pipesCreated = @ + 1, !.pipesOpen = @ + 1]
              /\ stack' = SetTop(stack, t, [Top(t) EXCEPT !.pc = "i_handler"])
              /\ UNCHANGED g_init_mutex
         ELSE /\ hist.initFails < MaxInitFail
              /\ g_init_mutex' = NoThread
              /\ hist' = [hist EXCEPT !.initFails = @ + 1,
                                      !.initRets = @ \cup {<<0, -1>>}]
              /\ stack' = Pop(t)
              /\ UNCHANGED g_request_pipe
    /\ UNCHANGED <<g_async_initialized, g_in_r_call, g_r_main_thread, g_input_handler,
                   pipeBuf, snap>>
    /\ UNCHANGED <<chanVars, conv>>

\* Mutant: a failed registration closes the pipe but leaves the two
\* descriptors stored.
r_udf_init_async_handler_Register_KeepsDescriptors(t) ==
    /\ AtPc(t, {"init"}, "i_handler")
    /\ \E ok \in BOOLEAN :
         IF ok
         THEN /\ g_input_handler' = hist.handlersRegistered + 1
              /\ hist' = [hist EXCEPT !.handlersRegistered = @ + 1]
              /\ stack' = SetTop(stack, t, [Top(t) EXCEPT !.pc = "i_done"])
              /\ UNCHANGED <<g_init_mutex, g_request_pipe>>
         ELSE /\ hist.initFails < MaxInitFail
              /\ g_input_handler' = 0
              /\ UNCHANGED g_request_pipe
              /\ g_init_mutex' = NoThread
              /\ hist' = [hist EXCEPT !.initFails = @ + 1, !.pipesOpen = @ - 1,
                                      !.initRets = @ \cup {<<0, -1>>}]
              /\ stack' = Pop(t)
    /\ UNCHANGED <<g_async_initialized, g_in_r_call, g_r_main_thread,
                   pipeBuf, snap>>
    /\ UNCHANGED <<chanVars, conv>>

\* lines 479-487: addInputHandler; on NULL close both ends, store -1, unlock,
\* return -1.
r_udf_init_async_handler_Register(t) ==
    /\ AtPc(t, {"init"}, "i_handler")
    /\ \E ok \in BOOLEAN :
         IF ok
         THEN /\ g_input_handler' = hist.handlersRegistered + 1
              /\ hist' = [hist EXCEPT !.handlersRegistered = @ + 1]
              /\ stack' = SetTop(stack, t, [Top(t) EXCEPT !.pc = "i_done"])
              /\ UNCHANGED <<g_init_mutex, g_request_pipe>>
         ELSE /\ hist.initFails < MaxInitFail
              /\ g_input_handler' = 0
              /\ g_request_pipe' = <<-1, -1>>
              /\ g_init_mutex' = NoThread
              /\ hist' = [hist EXCEPT !.initFails = @ + 1, !.pipesOpen = @ - 1,
                                      !.initRets = @ \cup {<<0, -1>>}]
              /\ stack' = Pop(t)
    /\ UNCHANGED <<g_async_initialized, g_in_r_call, g_r_main_thread,
                   pipeBuf, snap>>
    /\ UNCHANGED <<chanVars, conv>>

\* lines 490-492: g_async_initialized = 1; unlock; return 0.
r_udf_init_async_handler_Done(t) ==
    /\ AtPc(t, {"init"}, "i_done")
    /\ g_async_initialized' = 1
    /\ g_init_mutex' = NoThread
    /\ hist' = [hist EXCEPT !.initRets = @ \cup {<<0, 0>>}]
    /\ stack' = Pop(t)
    /\ UNCHANGED <<g_in_r_call, g_r_main_thread, g_request_pipe, g_input_handler,
                   pipeBuf, snap>>
    /\ UNCHANGED <<chanVars, conv>>

\* ------------------------------------------------------------ entry points
NewCall(op, pc) ==
    [NoFrame EXCEPT !.op = op, !.pc = pc,
                    !.type = IF op = "eval" THEN "R_UDF_REQUEST_EVAL" ELSE "none",
                    !.atInit = g_async_initialized]

\* Mutant: routing looks at the thread only, so a call made before
\* initialization is submitted through the pipe.
r_udf_eval_string_Begin_RouteByThread(t) ==
    /\ CanCall(t)
    /\ stack' = Push(t, NewCall("eval", IF is_r_main_thread(t) THEN "g_check"
                                                               ELSE "s_write"))
    /\ snap' = IF g_async_initialized = 1 /\ is_r_main_thread(t) /\ Idle(t)
               THEN {pipeBuf[i] : i \in 1..Len(pipeBuf)}
               ELSE snap
    /\ UNCHANGED <<globals, pipeBuf, hist>>
    /\ UNCHANGED <<chanVars, conv>>

\* r_udf_eval_string, lines 546-575: build the request on the caller's stack,
\* then route: initialized and on the recorded main thread -> direct;
\* initialized and on another thread -> submit through the pipe;
\* not initialized -> direct.
r_udf_eval_string_Begin(t) ==
    /\ CanCall(t)
    /\ LET direct == g_async_initialized = 0 \/ is_r_main_thread(t)
       IN /\ stack' = Push(t, NewCall("eval", IF direct THEN "g_check" ELSE "s_write"))
          /\ snap' = IF g_async_initialized = 1 /\ is_r_main_thread(t) /\ Idle(t)
                     THEN {pipeBuf[i] : i \in 1..Len(pipeBuf)}
                     ELSE snap
    /\ UNCHANGED <<globals, pipeBuf, hist>>
    /\ UNCHANGED <<chanVars, conv>>

\* The typed entry points: the table functions r_int_function (lines 681-682),
\* r_double_function, r_bool_function, r_vector_*_function, r_raw_function on
\* execute_r_eval_typed, and the scalar functions rx_scalar_function (line
\* 1451) on execute_r_eval_with_x and rx_str_scalar_function (line 1637) on
\* execute_r_eval_with_str.  Each puts a result on its own stack and runs its
\* guard on the calling thread; the three guards are the same code.
r_int_function_Begin(t) ==
    /\ CanCall(t)
    /\ stack' = Push(t, NewCall("typed", "g_check"))
    /\ UNCHANGED <<globals, pipeBuf, snap, hist>>
    /\ UNCHANGED <<chanVars, conv>>

\* ------------------------------------------------------ the execution guard
\* where a frame continues once its guarded call is over
AfterGuard(op) == IF op = "handler" THEN "h_lock" ELSE "ret"

\* the stack after the top frame of t moved to pc and its request became rq
GuardStep(t, pc, rq) ==
    LET q == ReqOf(<<t, Depth(t)>>)
        st == SetReq(stack, q, rq)
    IN SetTop(st, t, [st[t][Len(st[t])] EXCEPT !.pc = pc])

\* Mutant: the denied call resets the flag on its way out.
GuardCheck_ClearsFlag(t, ops) ==
    /\ AtPc(t, ops, "g_check")
    /\ LET q == ReqOf(<<t, Depth(t)>>) IN
         IF g_in_r_call = 1
         THEN stack' = GuardStep(t, AfterGuard(Top(t).op),
                                 [FrameAt(q) EXCEPT !.result = "REENTRANCE", !.error = 1])
         ELSE stack' = GuardStep(t, "g_set", FrameAt(q))
    /\ g_in_r_call' = 0
    /\ UNCHANGED <<g_async_initialized, g_r_main_thread, g_request_pipe,
                   g_input_handler, g_init_mutex, pipeBuf, snap, hist>>
    /\ UNCHANGED <<chanVars, conv>>

\* if (g_in_r_call) { write the re-entrance error; return; }
GuardCheck(t, ops) ==
    /\ AtPc(t, ops, "g_check")
    /\ LET q == ReqOf(<<t, Depth(t)>>) IN
         IF g_in_r_call = 1
         THEN stack' = GuardStep(t, AfterGuard(Top(t).op),
                                 [FrameAt(q) EXCEPT !.result = "REENTRANCE", !.error = 1])
         ELSE stack' = GuardStep(t, "g_set", FrameAt(q))
    /\ UNCHANGED <<globals, pipeBuf, snap, hist>>
    /\ UNCHANGED <<chanVars, conv>>

\* g_in_r_call = 1; then R_ToplevelExec(callback) is entered
GuardSet(t, ops) ==
    /\ AtPc(t, ops, "g_set")
    /\ g_in_r_call' = 1
    /\ stack' = SetTop(stack, t, [Top(t) EXCEPT !.pc = "g_run"])
    /\ UNCHANGED <<g_async_initialized, g_r_main_thread, g_request_pipe,
                   g_input_handler, g_init_mutex, pipeBuf, snap, hist>>
    /\ UNCHANGED <<chanVars, conv>>

\* Mutant: after a non-local exit the guard leaves in the output whatever
\* the callback had written so far.
GuardRun_KeepsCallbackOutput(t, ops) ==
    /\ AtPc(t, ops, "g_run")
    /\ LET q == ReqOf(<<t, Depth(t)>>) IN
         \E o \in RuntimeOutcomes :
           stack' = GuardStep(t, AfterGuard(Top(t).op),
                              [FrameAt(q) EXCEPT !.result = IF o = "ABORTED" THEN "PARTIAL" ELSE o,
                                                 !.rt = o,
                                                 !.error = IF o = "EVAL_ERROR" THEN 1 ELSE 0])
    /\ g_in_r_call' = 0
    /\ UNCHANGED <<g_async_initialized, g_r_main_thread, g_request_pipe,
                   g_input_handler, g_init_mutex, pipeBuf, snap, hist>>
    /\ UNCHANGED <<chanVars, conv>>

\* R_ToplevelExec returns: the callback wrote a value or an evaluation
\* error, or it was left by a non-local exit (success is FALSE) and the guard
\* overwrites the output with its own error (lines 409-411, 649-652); then
\* g_in_r_call = 0.
GuardRun(t, ops) ==
    /\ AtPc(t, ops, "g_run")
    /\ LET q == ReqOf(<<t, Depth(t)>>) IN
         \E o \in RuntimeOutcomes :
           stack' = GuardStep(t, AfterGuard(Top(t).op),
                              [FrameAt(q) EXCEPT !.result = o, !.rt = o,
                                                 !.error = IF o = "VALUE" THEN 0 ELSE 1])
    /\ g_in_r_call' = 0
    /\ UNCHANGED <<g_async_initialized, g_r_main_thread, g_request_pipe,
                   g_input_handler, g_init_mutex, pipeBuf, snap, hist>>
    /\ UNCHANGED <<chanVars, conv>>

execute_r_eval(t) ==
    \/ GuardCheck(t, {"eval", "handler"})
    \/ GuardSet(t, {"eval", "handler"})
    \/ GuardRun(t, {"eval", "handler"})

execute_r_eval_typed(t) ==
    \/ GuardCheck(t, {"typed"})
    \/ GuardSet(t, {"typed"})
    \/ GuardRun(t, {"typed"})

\* ------------------------------------------- r_udf_submit_async_request
\* lines 502-517: not initialized -> -1; init the request's mutex and
\* condition variable, done = 0, write the request pointer to the pipe; a
\* failed write destroys them and returns -1 (r_udf_eval_string then writes
\* ASYNC_SUBMIT_ERROR, lines 566-569).
r_udf_submit_async_request_Write(t) ==
    /\ AtPc(t, {"eval"}, "s_write")
    /\ IF g_async_initialized = 0 \/ g_request_pipe[2] < 0
       THEN /\ stack' = SetTop(stack, t, [Top(t) EXCEPT !.result = "ASYNC_SUBMIT_ERROR",
                                                        !.pc = "ret"])
            /\ UNCHANGED pipeBuf
       ELSE \E ok \in BOOLEAN :
              IF ok
              THEN /\ stack' = SetTop(stack, t, [Top(t) EXCEPT !.mutex = "free", !.done = 0,
                                                               !.pc = "s_wait"])
                   /\ pipeBuf' = Append(pipeBuf, <<t, Depth(t)>>)
              ELSE /\ stack' = SetTop(stack, t,
                                      [Top(t) EXCEPT !.mutex = "destroyed", !.done = 0,
                                                     !.result = "ASYNC_SUBMIT_ERROR",
                                                     !.pc = "ret"])
                   /\ UNCHANGED pipeBuf
    /\ UNCHANGED <<globals, snap, hist>>
    /\ UNCHANGED <<chanVars, conv>>

\* Mutant: the completion flag is read without taking the request's mutex.
r_udf_submit_async_request_Wait_NoLock(t) ==
    /\ AtPc(t, {"eval"}, "s_wait")
    /\ Top(t).done = 1
    /\ stack' = SetTop(stack, t, [Top(t) EXCEPT !.mutex = "destroyed", !.pc = "ret"])
    /\ UNCHANGED <<globals, pipeBuf, snap, hist>>
    /\ UNCHANGED <<chanVars, conv>>

\* Mutant: the wait returns on the first wake, without testing done again.
r_udf_submit_async_request_Wait_NoRecheck(t) ==
    /\ AtPc(t, {"eval"}, "s_wait")
    /\ Top(t).mutex = "free"
    /\ stack' = SetTop(stack, t, [Top(t) EXCEPT !.mutex = "destroyed", !.pc = "ret"])
    /\ UNCHANGED <<globals, pipeBuf, snap, hist>>
    /\ UNCHANGED <<chanVars, conv>>

\* lines 520-527: lock; while (!done) cond_wait; unlock; destroy the mutex
\* and the condition variable.  The loop is left only with the mutex
\* acquired and done set; a wake that finds done clear waits again.
r_udf_submit_async_request_Wait(t) ==
    /\ AtPc(t, {"eval"}, "s_wait")
    /\ Top(t).mutex = "free"
    /\ Top(t).done = 1
    /\ stack' = SetTop(stack, t, [Top(t) EXCEPT !.mutex = "destroyed", !.pc = "ret"])
    /\ UNCHANGED <<globals, pipeBuf, snap, hist>>
    /\ UNCHANGED <<chanVars, conv>>

\* r_udf_eval_string returns (-1 after a failed submit, else req.error ? -1 : 0);
\* the request, a local of the function, ceases to exist.
r_udf_eval_string_Return(t) ==
    /\ AtPc(t, {"eval"}, "ret")
    /\ stack' = Pop(t)
    /\ snap' = IF Depth(t) = 1 /\ Top(t).atInit = 1 /\ is_r_main_thread(t)
               THEN {} ELSE snap
    /\ UNCHANGED <<globals, pipeBuf, hist>>
    /\ UNCHANGED <<chanVars, conv>>

\* the typed functions return: the result, a local, ceases to exist
r_int_function_Return(t) ==
    /\ AtPc(t, {"typed"}, "ret")
    /\ stack' = Pop(t)
    /\ UNCHANGED <<globals, pipeBuf, snap, hist>>
    /\ UNCHANGED <<chanVars, conv>>

\* ------------------------------------------------------ r_udf_input_handler
\* R's event loop finds the pipe readable and calls the handler on the
\* thread that runs R: while that thread is idle, or from inside an R
\* evaluation.  Lines 429-445: read one request pointer; switch on the
\* request's type: R_UDF_REQUEST_EVAL goes to execute_r_eval, every other
\* type (R_UDF_REQUEST_SHUTDOWN) straight to the completion.
r_udf_input_handler_Read(t) ==
    /\ t = RMainThread
    /\ CanEnter(t)
    /\ g_input_handler # 0
    /\ pipeBuf # <<>>
    /\ stack' = Push(t, [NoFrame EXCEPT !.op = "handler",
                                        !.pc = IF FrameAt(Head(pipeBuf)).type
                                                    = "R_UDF_REQUEST_EVAL"
                                               THEN "g_check" ELSE "h_lock",
                                        !.ref = Head(pipeBuf), !.atInit = 1])
    /\ pipeBuf' = Tail(pipeBuf)
    /\ UNCHANGED <<globals, snap, hist>>
    /\ UNCHANGED <<chanVars, conv>>

\* Mutant: a request whose evaluation ended in an error is left without
\* its completion: the handler returns without setting done or signalling.
r_udf_input_handler_Signal_OnlyOnSuccess(t) ==
    /\ AtPc(t, {"handler"}, "h_lock")
    /\ LET q == Top(t).ref IN
         /\ Exists(q)
         /\ FrameAt(q).mutex = "free"
         /\ IF FrameAt(q).error = 1
            THEN stack' = Pop(t)
            ELSE stack' = GuardStep(t, "h_unlock",
                                    [FrameAt(q) EXCEPT !.mutex = "held", !.done = 1])
         /\ snap' = snap \ {q}
    /\ UNCHANGED <<globals, pipeBuf, hist>>
    /\ UNCHANGED <<chanVars, conv>>

\* lines 448-450: lock the request's mutex, done = 1, signal
r_udf_input_handler_Signal(t) ==
    /\ AtPc(t, {"handler"}, "h_lock")
    /\ LET q == Top(t).ref IN
         /\ Exists(q)
         /\ FrameAt(q).mutex = "free"
         /\ stack' = GuardStep(t, "h_unlock",
                               [FrameAt(q) EXCEPT !.mutex = "held", !.done = 1])
         /\ snap' = snap \ {q}
    /\ UNCHANGED <<globals, pipeBuf, hist>>
    /\ UNCHANGED <<chanVars, conv>>

\* line 451: unlock, the handler's last access to the request
r_udf_input_handler_Unlock(t) ==
    /\ AtPc(t, {"handler"}, "h_unlock")
    /\ LET q == Top(t).ref
           st == IF Exists(q) THEN SetReq(stack, q, [FrameAt(q) EXCEPT !.mutex = "free"])
                 ELSE stack
       IN stack' = [st EXCEPT ![t] = SubSeq(@, 1, Len(@) - 1)]
    /\ UNCHANGED <<globals, pipeBuf, snap, hist>>
    /\ UNCHANGED <<chanVars, conv>>

Next ==
    \E t \in Threads :
        \/ r_udf_init_async_handler_Begin(t)
        \/ r_udf_init_async_handler_Pipe(t)
        \/ r_udf_init_async_handler_Register(t)
        \/ r_udf_init_async_handler_Done(t)
        \/ r_udf_eval_string_Begin(t)
        \/ r_int_function_Begin(t)
        \/ execute_r_eval(t)
        \/ execute_r_eval_typed(t)
        \/ r_udf_submit_async_request_Write(t)
        \/ r_udf_submit_async_request_Wait(t)
        \/ r_udf_eval_string_Return(t)
        \/ r_int_function_Return(t)
        \/ r_udf_input_handler_Read(t)
        \/ r_udf_input_handler_Signal(t)
        \/ r_udf_input_handler_Unlock(t)

Spec == Init /\ [][Next]_vars

\* Threads are scheduled by the operating system, so a thread that can take
\* a step of the code it is in eventually does.  Nothing makes a caller call,
\* and nothing makes R's event loop run the input handler: the thread that
\* runs R reaches its event loop only when it is not busy elsewhere.
ThreadStep(t) ==
    \/ r_udf_init_async_handler_Pipe(t)
    \/ r_udf_init_async_handler_Register(t)
    \/ r_udf_init_async_handler_Done(t)
    \/ execute_r_eval(t)
    \/ execute_r_eval_typed(t)
    \/ r_udf_submit_async_request_Write(t)
    \/ r_udf_submit_async_request_Wait(t)
    \/ r_udf_eval_string_Return(t)
    \/ r_int_function_Return(t)
    \/ r_udf_input_handler_Signal(t)
    \/ r_udf_input_handler_Unlock(t)

FairSpec == Init /\ [][Next]_vars /\ \A t \in Threads : WF_vars(ThreadStep(t))

\* ================================================================ r_chan.c
\* Each step below leaves the dispatch state and the conversion alone.
ChanFrame == UNCHANGED <<dispatchVars, conv, timer>>

\* the threads of set ws are taken off not_empty: each returns from its
\* condition wait with value rv once it has the mutex again
Woken(ct, ws, rv) ==
    [w \in CThreads |-> IF w \in ws THEN [ct[w] EXCEPT !.pc = "r_woken", !.rv = rv]
                        ELSE ct[w]]

\* r_chan_init_signal_pipe, lines 57-76: pipe(); on failure return -1 with
\* nothing changed; else both ends O_NONBLOCK.
r_chan_init_signal_pipe(p) ==
    /\ CanBegin(p)
    /\ chan.signal_pipe = <<-1, -1>>
    /\ \E ok \in BOOLEAN :
         chan' = IF ok THEN [chan EXCEPT !.signal_pipe = <<3, 4>>] ELSE chan
    /\ UNCHANGED <<cthread, chist>>
    /\ ChanFrame

\* ------------------------------------------------------------- r_chan_send
\* lines 127-144: the timeout is cast away; malloc of the node, ENOMEM when
\* it fails; then pthread_mutex_lock.  Up to the lock the call touches
\* nothing shared, so the call is taken to begin when it gets the mutex.
r_chan_send_Begin(p) ==
    /\ CanBegin(p)
    /\ chist.nsend < MaxMsgs
    /\ \E timeout \in Timeouts, ok \in BOOLEAN :
         IF ok
         THEN /\ chan.mtx = 0
              /\ chan' = [chan EXCEPT !.mtx = p]
              /\ cthread' = [cthread EXCEPT ![p] =
                                [NoCall EXCEPT !.op = "send", !.pc = "s_crit",
                                               !.msg = chist.nsend + 1]]
         ELSE /\ cthread' = [cthread EXCEPT ![p] =
                                [NoCall EXCEPT !.op = "send", !.pc = "ret", !.rv = "ENOMEM"]]
              /\ UNCHANGED chan
    /\ chist' = [chist EXCEPT !.nsend = @ + 1]
    /\ ChanFrame

\* the nodes reached from node h by following next, as a set; k bounds the
\* walk, so that a cycle ends it
RECURSIVE ListFrom(_, _, _)
ListFrom(h, next, k) ==
    IF h = 0 \/ k = 0 THEN {} ELSE {h} \cup ListFrom(next[h], next, k - 1)

\* lines 154-160: if (tail) { tail->next = node; tail = node; } else
\* head = tail = node;  the node's own next is NULL (line 142)
LinkAtTail(c, node) ==
    IF c.tail # 0
    THEN [c EXCEPT !.next[c.tail] = node, !.tail = node]
    ELSE [c EXCEPT !.head = node, !.tail = node]

\* Mutant: the node is linked in at the head.
r_chan_send_Enqueue_AtHead(p) ==
    /\ CAt(p, "send", "s_crit")
    /\ IF chan.is_closed
       THEN /\ chan' = [chan EXCEPT !.mtx = 0]
            /\ cthread' = [cthread EXCEPT ![p].pc = "ret", ![p].rv = "EPIPE", ![p].msg = 0]
            /\ UNCHANGED chist
       ELSE /\ \E ws \in {w \in SUBSET chan.waiters :
                            Cardinality(w) = IF chan.waiters = {} THEN 0 ELSE 1} :
                 /\ chan' = [chan EXCEPT !.q = <<cthread[p].msg>> \o @, !.len = @ + 1,
                                        !.next[cthread[p].msg] = chan.head,
                                        !.head = cthread[p].msg,
                                        !.tail = IF @ = 0 THEN cthread[p].msg ELSE @,
                                        !.waiters = @ \ ws, !.mtx = 0]
                 /\ cthread' = [Woken(cthread, ws, "OK") EXCEPT ![p].pc = "s_pipe", ![p].msg = 0]
            /\ chist' = [chist EXCEPT !.enq = Append(@, cthread[p].msg)]
    /\ ChanFrame

\* Mutant: the closed flag is not tested.
r_chan_send_Enqueue_NoClosedTest(p) ==
    /\ CAt(p, "send", "s_crit")
    /\ \E ws \in {w \in SUBSET chan.waiters :
                    Cardinality(w) = IF chan.waiters = {} THEN 0 ELSE 1} :
         /\ chan' = [LinkAtTail(chan, cthread[p].msg) EXCEPT
                        !.q = Append(@, cthread[p].msg), !.len = @ + 1,
                        !.waiters = @ \ ws, !.mtx = 0]
         /\ cthread' = [Woken(cthread, ws, "OK") EXCEPT ![p].pc = "s_pipe", ![p].msg = 0]
    /\ chist' = [chist EXCEPT !.enq = Append(@, cthread[p].msg)]
    /\ ChanFrame

\* lines 146-166, with the mutex held: closed -> unlock, free the node,
\* EPIPE; else link the node in at the tail, len++, pthread_cond_signal
\* (one waiter, if there is any, is taken off not_empty), unlock.
r_chan_send_Enqueue(p) ==
    /\ CAt(p, "send", "s_crit")
    /\ IF chan.is_closed
       THEN /\ chan' = [chan EXCEPT !.mtx = 0]
            /\ cthread' = [cthread EXCEPT ![p].pc = "ret", ![p].rv = "EPIPE", ![p].msg = 0]
            /\ UNCHANGED chist
       ELSE /\ \E ws \in {w \in SUBSET chan.waiters :
                            Cardinality(w) = IF chan.waiters = {} THEN 0 ELSE 1} :
                 /\ chan' = [LinkAtTail(chan, cthread[p].msg) EXCEPT
                                !.q = Append(@, cthread[p].msg), !.len = @ + 1,
                                !.waiters = @ \ ws, !.mtx = 0]
                 /\ cthread' = [Woken(cthread, ws, "OK") EXCEPT ![p].pc = "s_pipe", ![p].msg = 0]
            /\ chist' = [chist EXCEPT !.enq = Append(@, cthread[p].msg)]
    /\ ChanFrame

\* Mutant: the doorbell byte is not written.
r_chan_send_Pipe_NoDoorbell(p) ==
    /\ CAt(p, "send", "s_pipe")
    /\ cthread' = [cthread EXCEPT ![p].pc = "ret", ![p].rv = "OK"]
    /\ UNCHANGED <<chan, chist>>
    /\ ChanFrame

\* Mutant: the write end is blocking, so the write waits for room.
r_chan_send_Pipe_Blocking(p) ==
    /\ CAt(p, "send", "s_pipe")
    /\ chan.signal_pipe[2] >= 0 => chan.doorbell < PipeCap
    /\ chan' = IF chan.signal_pipe[2] >= 0
               THEN [chan EXCEPT !.doorbell = @ + 1]
               ELSE chan
    /\ cthread' = [cthread EXCEPT ![p].pc = "ret", ![p].rv = "OK"]
    /\ UNCHANGED chist
    /\ ChanFrame

\* lines 169-175: if the write end is open, write one byte; the end is
\* non-blocking, so with the pipe full the write fails with EAGAIN, which is
\* ignored; return 0.
r_chan_send_Pipe(p) ==
    /\ CAt(p, "send", "s_pipe")
    /\ chan' = IF chan.signal_pipe[2] >= 0 /\ chan.doorbell < PipeCap
               THEN [chan EXCEPT !.doorbell = @ + 1]
               ELSE chan
    /\ chist' = IF chan.signal_pipe[2] >= 0 /\ chan.doorbell >= PipeCap
                THEN [chist EXCEPT !.full = @ + 1]
                ELSE chist
    /\ cthread' = [cthread EXCEPT ![p].pc = "ret", ![p].rv = "OK"]
    /\ ChanFrame

\* ------------------------------------------------------------- r_chan_recv
\* lines 182-189: rv = 0, pthread_mutex_lock
r_chan_recv_Begin(p) ==
    /\ CanBegin(p)
    /\ chan.mtx = 0
    /\ chan' = [chan EXCEPT !.mtx = p]
    /\ \E timeout \in Timeouts :
         cthread' = [cthread EXCEPT ![p] = [NoCall EXCEPT !.op = "recv", !.pc = "r_check",
                                                          !.timeout = timeout]]
    /\ UNCHANGED chist
    /\ ChanFrame

\* the content of the two returns and the dequeue of r_chan_recv_Check
RecvReturn(p, rv) ==
    /\ chan' = [chan EXCEPT !.mtx = 0]
    /\ cthread' = [cthread EXCEPT ![p].pc = "ret", ![p].rv = rv]
    /\ UNCHANGED chist
\* Mutant: tail is left pointing at the node that was unlinked last.
UnlinkHead_KeepsTail(c) ==
    [c EXCEPT !.head = c.next[c.head], !.next[c.head] = 0]
\* lines 215-220: node = head; head = node->next; if (!head) tail = NULL;
\* the node is freed after the unlock (line 225)
UnlinkHead(c) ==
    [c EXCEPT !.head = c.next[c.head],
              !.tail = IF c.next[c.head] = 0 THEN 0 ELSE @,
              !.next[c.head] = 0]
RecvDequeue(p) ==
    /\ chan' = [UnlinkHead(chan) EXCEPT !.q = Tail(@), !.len = @ - 1, !.mtx = 0]
    /\ cthread' = [cthread EXCEPT ![p].pc = "ret", ![p].rv = "OK", ![p].msg = chan.head,
                                   ![p].timeout = "NONE"]
    /\ chist' = [chist EXCEPT !.deq = Append(@, chan.head)]
RecvWait(p) ==
    /\ chan' = [chan EXCEPT !.mtx = 0, !.waiters = @ \cup {p}]
    /\ cthread' = [cthread EXCEPT ![p].pc = "r_wait"]
    /\ UNCHANGED chist

\* Mutant: the message of the head node is returned and the node left in
\* the list.
r_chan_recv_Check_NoUnlink(p) ==
    /\ CAt(p, "recv", "r_check")
    /\ IF chan.len = 0 /\ ~chan.is_closed
       THEN IF cthread[p].timeout = "NO_WAIT" THEN RecvReturn(p, "EAGAIN")
            ELSE RecvWait(p)
       ELSE IF chan.len = 0 /\ chan.is_closed THEN RecvReturn(p, "EPIPE")
            ELSE /\ chan' = [chan EXCEPT !.mtx = 0]
                 /\ cthread' = [cthread EXCEPT ![p].pc = "ret", ![p].rv = "OK",
                                                ![p].msg = chan.head, ![p].timeout = "NONE"]
                 /\ chist' = [chist EXCEPT !.deq = Append(@, chan.head)]
    /\ ChanFrame

\* Mutant: the no-wait test of lines 193-197 is missing, so a no-wait recv
\* on an empty channel goes to the condition wait.
r_chan_recv_Check_NoWaitBlocks(p) ==
    /\ CAt(p, "recv", "r_check")
    /\ IF chan.len = 0 /\ ~chan.is_closed
       THEN RecvWait(p)
       ELSE IF chan.len = 0 /\ chan.is_closed THEN RecvReturn(p, "EPIPE")
            ELSE RecvDequeue(p)
    /\ ChanFrame

\* Mutant: a closed channel fails recv at once, whatever is still queued.
r_chan_recv_Check_ClosedFirst(p) ==
    /\ CAt(p, "recv", "r_check")
    /\ IF chan.is_closed THEN RecvReturn(p, "EPIPE")
       ELSE IF chan.len = 0
            THEN IF cthread[p].timeout = "NO_WAIT" THEN RecvReturn(p, "EAGAIN")
                 ELSE RecvWait(p)
            ELSE RecvDequeue(p)
    /\ ChanFrame

\* lines 192-226, with the mutex held, one evaluation of the loop condition:
\* empty and open -> EAGAIN in no-wait mode, else wait on not_empty (the
\* mutex is released); empty and closed -> EPIPE; else unlink the head node,
\* len--, unlock, return the message.
r_chan_recv_Check_Step(p) ==
    /\ CAt(p, "recv", "r_check")
    /\ IF chan.len = 0 /\ ~chan.is_closed
       THEN IF cthread[p].timeout = "NO_WAIT" THEN RecvReturn(p, "EAGAIN")
            ELSE RecvWait(p)
       ELSE IF chan.len = 0 /\ chan.is_closed THEN RecvReturn(p, "EPIPE")
            ELSE RecvDequeue(p)

r_chan_recv_Check(p) == r_chan_recv_Check_Step(p) /\ ChanFrame

\* cond_timedwait, lines 40-50: pthread_cond_timedwait reaches its deadline
cond_timedwait_Timeout_Step(p) ==
    /\ CAt(p, "recv", "r_wait")
    /\ cthread[p].timeout = "RELATIVE"
    /\ chan' = [chan EXCEPT !.waiters = @ \ {p}]
    /\ cthread' = Woken(cthread, {p}, "ETIMEDOUT")
    /\ UNCHANGED chist

cond_timedwait_Timeout(p) == cond_timedwait_Timeout_Step(p) /\ ChanFrame

\* pthread_cond_wait and pthread_cond_timedwait may return with no signal
\* (lines 37, 50)
cond_timedwait_Spurious(p) ==
    /\ CAt(p, "recv", "r_wait")
    /\ chan' = [chan EXCEPT !.waiters = @ \ {p}]
    /\ cthread' = Woken(cthread, {p}, "OK")
    /\ UNCHANGED chist
    /\ ChanFrame

\* the condition wait returns with the mutex held again; lines 199-205:
\* ETIMEDOUT -> unlock and return it, else test the loop condition again
r_chan_recv_Woken(p) ==
    /\ CAt(p, "recv", "r_woken")
    /\ chan.mtx = 0
    /\ IF cthread[p].rv = "ETIMEDOUT"
       THEN /\ cthread' = [cthread EXCEPT ![p].pc = "ret", ![p].timeout = "NONE"]
            /\ UNCHANGED chan
       ELSE /\ cthread' = [cthread EXCEPT ![p].pc = "r_check"]
            /\ chan' = [chan EXCEPT !.mtx = p]
    /\ UNCHANGED chist
    /\ ChanFrame

\* ------------------------------------------------------------ r_chan_close
\* lines 108-111: pthread_mutex_lock
r_chan_close_Begin(p) ==
    /\ CanBegin(p)
    /\ chan.mtx = 0
    /\ chan' = [chan EXCEPT !.mtx = p]
    /\ cthread' = [cthread EXCEPT ![p] = [NoCall EXCEPT !.op = "close", !.pc = "c_crit"]]
    /\ UNCHANGED chist
    /\ ChanFrame

\* Mutant: the flag is set but the waiters are not woken.
r_chan_close_NoBroadcast(p) ==
    /\ CAt(p, "close", "c_crit")
    /\ chan' = [chan EXCEPT !.is_closed = TRUE, !.mtx = 0]
    /\ cthread' = [cthread EXCEPT ![p].pc = "ret", ![p].rv = "OK"]
    /\ chist' = [chist EXCEPT !.backlog = IF chan.is_closed THEN @ ELSE chan.len]
    /\ ChanFrame

\* Mutant: close also throws the backlog away.
r_chan_close_DropsBacklog(p) ==
    /\ CAt(p, "close", "c_crit")
    /\ chan' = [chan EXCEPT !.is_closed = TRUE, !.q = <<>>, !.len = 0,
                            !.head = 0, !.tail = 0, !.next = [n \in Nodes |-> 0],
                            !.waiters = {}, !.mtx = 0]
    /\ cthread' = [Woken(cthread, chan.waiters, "OK") EXCEPT ![p].pc = "ret", ![p].rv = "OK"]
    /\ chist' = [chist EXCEPT !.backlog = IF chan.is_closed THEN @ ELSE chan.len]
    /\ ChanFrame

\* lines 113-120, with the mutex held: if not yet closed, set is_closed and
\* pthread_cond_broadcast (every waiter is taken off not_empty); unlock.
r_chan_close(p) ==
    /\ CAt(p, "close", "c_crit")
    /\ IF chan.is_closed
       THEN /\ chan' = [chan EXCEPT !.mtx = 0]
            /\ cthread' = [cthread EXCEPT ![p].pc = "ret", ![p].rv = "OK"]
       ELSE /\ chan' = [chan EXCEPT !.is_closed = TRUE, !.waiters = {}, !.mtx = 0]
            /\ cthread' = [Woken(cthread, chan.waiters, "OK")
                              EXCEPT ![p].pc = "ret", ![p].rv = "OK"]
    /\ chist' = [chist EXCEPT !.backlog = IF chan.is_closed THEN @ ELSE chan.len]
    /\ ChanFrame

\* ----------------------------------------------------- r_chan_drain_signal
\* line 234: nothing to do without a pipe
r_chan_drain_signal_Begin(p) ==
    /\ CanBegin(p)
    /\ cthread' = [cthread EXCEPT ![p] =
                      [NoCall EXCEPT !.op = "drain",
                                     !.pc = IF chan.signal_pipe[1] < 0 THEN "ret"
                                                                       ELSE "d_read"]]
    /\ UNCHANGED <<chan, chist>>
    /\ ChanFrame

\* lines 236-239: one read of up to sizeof(buf) bytes from the non-blocking
\* read end; a read that finds the pipe empty ends the loop.
r_chan_drain_signal_Read(p) ==
    /\ CAt(p, "drain", "d_read")
    /\ IF chan.doorbell > 0
       THEN /\ chan' = [chan EXCEPT !.doorbell =
                           IF @ > DrainBuf THEN @ - DrainBuf ELSE 0]
            /\ UNCHANGED cthread
       ELSE /\ cthread' = [cthread EXCEPT ![p].pc = "ret", ![p].rv = "OK"]
            /\ UNCHANGED chan
    /\ UNCHANGED chist
    /\ ChanFrame

\* the call returns to the thread's own code
r_chan_Return(p) ==
    /\ cthread[p].pc = "ret"
    /\ cthread[p].cb = "none"
    /\ cthread' = [cthread EXCEPT ![p] = NoCall]
    /\ UNCHANGED <<chan, chist>>
    /\ ChanFrame

\* r_chan_cleanup, lines 78-106, called when no other thread is in a
\* channel call or makes one.  Line 81: r_chan_close(chan), which begins by
\* taking the mutex.
r_chan_cleanup_Begin(p) ==
    /\ \A w \in CThreads : CIdle(w)
    /\ ~chan.destroyed
    /\ chan' = [chan EXCEPT !.mtx = p]
    /\ cthread' = [cthread EXCEPT ![p] = [NoCall EXCEPT !.op = "close", !.pc = "c_crit",
                                                        !.cb = "cleanup"]]
    /\ UNCHANGED chist
    /\ ChanFrame

\* line 84: r_chan_close has returned; pthread_mutex_lock
r_chan_cleanup_Lock(p) ==
    /\ CAt(p, "close", "ret")
    /\ cthread[p].cb = "cleanup"
    /\ chan.mtx = 0
    /\ chan' = [chan EXCEPT !.mtx = p]
    /\ cthread' = [cthread EXCEPT ![p] = [NoCall EXCEPT !.op = "cleanup", !.pc = "x_free",
                                                        !.cb = "cleanup"]]
    /\ UNCHANGED chist
    /\ ChanFrame

\* lines 85-93, with the mutex held: free every node from head on,
\* head = tail = NULL, len = 0; unlock
r_chan_cleanup_Free(p) ==
    /\ CAt(p, "cleanup", "x_free")
    /\ chan' = [chan EXCEPT !.q = <<>>, !.head = 0, !.tail = 0,
                            !.next = [n \in Nodes |-> 0], !.len = 0, !.mtx = 0]
    /\ cthread' = [cthread EXCEPT ![p].pc = "x_destroy"]
    /\ chist' = [chist EXCEPT !.discarded = ListFrom(chan.head, chan.next, MaxMsgs)]
    /\ ChanFrame

\* lines 95-105: destroy the condition variable and the mutex, close both
\* pipe ends; the call returns
r_chan_cleanup_Destroy(p) ==
    /\ CAt(p, "cleanup", "x_destroy")
    /\ chan' = [chan EXCEPT !.signal_pipe = <<-1, -1>>, !.doorbell = 0,
                            !.destroyed = TRUE]
    /\ cthread' = [cthread EXCEPT ![p] = NoCall]
    /\ UNCHANGED chist
    /\ ChanFrame

ChanNext ==
    \E p \in CThreads :
        \/ r_chan_init_signal_pipe(p)
        \/ r_chan_send_Begin(p)
        \/ r_chan_send_Enqueue(p)
        \/ r_chan_send_Pipe(p)
        \/ r_chan_recv_Begin(p)
        \/ r_chan_recv_Check(p)
        \/ cond_timedwait_Timeout(p)
        \/ cond_timedwait_Spurious(p)
        \/ r_chan_recv_Woken(p)
        \/ r_chan_close_Begin(p)
        \/ r_chan_close(p)
        \/ r_chan_drain_signal_Begin(p)
        \/ r_chan_drain_signal_Read(p)
        \/ r_chan_Return(p)
        \/ r_chan_cleanup_Begin(p)
        \/ r_chan_cleanup_Lock(p)
        \/ r_chan_cleanup_Free(p)
        \/ r_chan_cleanup_Destroy(p)

ChanSpec == Init /\ [][ChanNext]_vars

\* A thread inside an r_chan call is scheduled: it leaves its critical
\* section, a timed wait reaches its deadline, and a thread that needs the
\* mutex to return from its condition wait gets it at one of the times the
\* mutex is free (no thread is passed over forever).  Nothing makes a
\* thread call the channel, and a condition wait need not return without a
\* signal.
ChanThreadStep(p) ==
    \/ r_chan_send_Enqueue(p)
    \/ r_chan_send_Pipe(p)
    \/ r_chan_recv_Check(p)
    \/ cond_timedwait_Timeout(p)
    \/ r_chan_recv_Woken(p)
    \/ r_chan_close(p)
    \/ r_chan_drain_signal_Read(p)
    \/ r_chan_Return(p)
    \/ r_chan_cleanup_Lock(p)
    \/ r_chan_cleanup_Free(p)
    \/ r_chan_cleanup_Destroy(p)

\* The calls that touch the queue, the closed flag and the condition
\* variable.  The signal pipe is left unopened (r_chan_send then writes no
\* byte, line 169) and the channel is not torn down: neither is read by
\* r_chan_recv or r_chan_close.
ChanWaitNext ==
    \E p \in CThreads :
        \/ r_chan_send_Begin(p)
        \/ r_chan_send_Enqueue(p)
        \/ r_chan_send_Pipe(p)
        \/ r_chan_recv_Begin(p)
        \/ r_chan_recv_Check(p)
        \/ cond_timedwait_Timeout(p)
        \/ cond_timedwait_Spurious(p)
        \/ r_chan_recv_Woken(p)
        \/ r_chan_close_Begin(p)
        \/ r_chan_close(p)
        \/ r_chan_Return(p)

ChanFairSpec ==
    Init /\ [][ChanWaitNext]_vars /\ \A p \in CThreads : SF_vars(ChanThreadStep(p))

\* ------------------------------------------------------- the timed waits
\* r_chan_recv with the clock followed.  The other calls do not read the
\* clock.
TimedFrame == UNCHANGED <<dispatchVars, conv>>

\* time passes
Tick ==
    /\ timer.now < MaxTime
    /\ timer' = [timer EXCEPT !.now = @ + 1]
    /\ UNCHANGED <<chan, cthread, chist>>
    /\ TimedFrame

\* line 199 and cond_timedwait, lines 41-50: every time the loop of
\* r_chan_recv goes to the wait, abs_time is made anew from the clock as it
\* is then: abs_time = now + timeout.  A recv that returns forgets its times.
r_chan_recv_Check_Timed(p) ==
    /\ r_chan_recv_Check_Step(p)
    /\ timer' = IF cthread'[p].pc = "r_wait" /\ cthread[p].timeout = "RELATIVE"
                THEN [timer EXCEPT !.abs_time[p] = timer.now + RelTimeout,
                                   !.start[p] = IF @ = -1 THEN timer.now ELSE @]
                ELSE IF cthread'[p].pc = "ret"
                     THEN [timer EXCEPT !.start[p] = -1, !.abs_time[p] = -1]
                     ELSE timer
    /\ TimedFrame

\* pthread_cond_timedwait returns ETIMEDOUT once the clock has reached
\* abs_time (line 50)
cond_timedwait_Timeout_Timed(p) ==
    /\ timer.now >= timer.abs_time[p]
    /\ cond_timedwait_Timeout_Step(p)
    /\ timer' = [timer EXCEPT !.start[p] = -1, !.abs_time[p] = -1]
    /\ TimedFrame

TimedNext ==
    \/ Tick
    \/ \E p \in CThreads :
          \/ r_chan_send_Begin(p)
          \/ r_chan_send_Enqueue(p)
          \/ r_chan_send_Pipe(p)
          \/ r_chan_recv_Begin(p)
          \/ r_chan_recv_Check_Timed(p)
          \/ cond_timedwait_Timeout_Timed(p)
          \/ cond_timedwait_Spurious(p)
          \/ r_chan_recv_Woken(p)
          \/ r_chan_Return(p)

TimedSpec == Init /\ [][TimedNext]_vars

\* ====================================================== the event-loop bridge
\* The channel under the consumer the specification describes (its section
\* 4.6): the wakeup pipe's read end is registered with the event loop, which
\* runs a callback on the consumer thread while the pipe is readable; the
\* callback calls r_chan_drain_signal, then r_chan_recv in no-wait mode and
\* runs each request received, until a recv finds the channel empty.  Every
\* other thread only sends.
Consumer == 1
Senders == CThreads \ {Consumer}

\* the pipe has been made and registered; nothing has been sent
BridgeInit ==
    /\ DispatchInit
    /\ chan = [r_chan_init EXCEPT !.signal_pipe = <<3, 4>>]
    /\ timer = NoTimer
    /\ cthread = [p \in CThreads |-> NoCall]
    /\ chist = [nsend |-> 0, enq |-> <<>>, deq |-> <<>>, discarded |-> {},
                backlog |-> -1, full |-> 0, order |-> "none"]
    /\ conv = NoConv

\* the event loop finds the read end readable and runs the callback, which
\* begins with r_chan_drain_signal
EventLoopCallback_Begin(p) ==
    /\ p = Consumer
    /\ CIdle(p)
    /\ chan.doorbell > 0
    /\ cthread' = [cthread EXCEPT ![p] = [NoCall EXCEPT !.op = "drain", !.pc = "d_read",
                                                        !.cb = "drain"]]
    /\ chist' = [chist EXCEPT !.order = "drain_first"]
    /\ UNCHANGED chan
    /\ ChanFrame

\* after the drain, and after each request received (and run): the next
\* r_chan_recv(chan, &msg, R_CHAN_NO_WAIT)
EventLoopCallback_TryRecv(p) ==
    /\ p = Consumer
    /\ cthread[p].pc = "ret"
    /\ \/ cthread[p].cb = "drain"
       \/ cthread[p].cb = "recv" /\ cthread[p].rv = "OK"
    /\ chan.mtx = 0
    /\ chan' = [chan EXCEPT !.mtx = p]
    /\ cthread' = [cthread EXCEPT ![p] = [NoCall EXCEPT !.op = "recv", !.pc = "r_check",
                                                        !.timeout = "NO_WAIT",
                                                        !.cb = "recv"]]
    /\ UNCHANGED chist
    /\ ChanFrame

\* a recv found the channel empty: the callback returns to the event loop
EventLoopCallback_End(p) ==
    /\ p = Consumer
    /\ cthread[p].pc = "ret"
    /\ cthread[p].cb = "recv"
    /\ cthread[p].rv # "OK"
    /\ cthread' = [cthread EXCEPT ![p] = NoCall]
    /\ UNCHANGED <<chan, chist>>
    /\ ChanFrame

BridgeNext ==
    \/ \E p \in Senders :
          \/ r_chan_send_Begin(p)
          \/ r_chan_send_Enqueue(p)
          \/ r_chan_send_Pipe(p)
          \/ r_chan_Return(p)
    \/ \E p \in {Consumer} :
          \/ EventLoopCallback_Begin(p)
          \/ r_chan_drain_signal_Read(p)
          \/ EventLoopCallback_TryRecv(p)
          \/ r_chan_recv_Check(p)
          \/ EventLoopCallback_End(p)

BridgeSpec == BridgeInit /\ [][BridgeNext]_vars

\* Threads inside a call are scheduled as in ChanFairSpec, and the event
\* loop, idle on the consumer thread, runs the callback while the pipe is
\* readable.  Nothing makes a sender send.
BridgeStep(p) ==
    \/ r_chan_send_Enqueue(p)
    \/ r_chan_send_Pipe(p)
    \/ r_chan_Return(p)
    \/ EventLoopCallback_Begin(p)
    \/ r_chan_drain_signal_Read(p)
    \/ EventLoopCallback_TryRecv(p)
    \/ r_chan_recv_Check(p)
    \/ EventLoopCallback_End(p)

BridgeFairSpec ==
    BridgeInit /\ [][BridgeNext]_vars /\ \A p \in CThreads : SF_vars(BridgeStep(p))

\* The consumer that drains the queue first and the pipe afterwards: the
\* callback begins with r_chan_recv in no-wait mode
EventLoopCallback_BeginRecvFirst(p) ==
    /\ p = Consumer
    /\ CIdle(p)
    /\ chan.doorbell > 0
    /\ chan.mtx = 0
    /\ chan' = [chan EXCEPT !.mtx = p]
    /\ cthread' = [cthread EXCEPT ![p] = [NoCall EXCEPT !.op = "recv", !.pc = "r_check",
                                                        !.timeout = "NO_WAIT",
                                                        !.cb = "recv_first"]]
    /\ chist' = [chist EXCEPT !.order = "drain_last"]
    /\ ChanFrame

\* after each request received: the next r_chan_recv(chan, &msg, R_CHAN_NO_WAIT)
EventLoopCallback_RecvNext(p) ==
    /\ p = Consumer
    /\ cthread[p].pc = "ret"
    /\ cthread[p].cb = "recv_first"
    /\ cthread[p].rv = "OK"
    /\ chan.mtx = 0
    /\ chan' = [chan EXCEPT !.mtx = p]
    /\ cthread' = [cthread EXCEPT ![p] = [NoCall EXCEPT !.op = "recv", !.pc = "r_check",
                                                        !.timeout = "NO_WAIT",
                                                        !.cb = "recv_first"]]
    /\ UNCHANGED chist
    /\ ChanFrame

\* a recv found the channel empty: now r_chan_drain_signal
EventLoopCallback_DrainLast(p) ==
    /\ p = Consumer
    /\ cthread[p].pc = "ret"
    /\ cthread[p].cb = "recv_first"
    /\ cthread[p].rv # "OK"
    /\ cthread' = [cthread EXCEPT ![p] = [NoCall EXCEPT !.op = "drain", !.pc = "d_read",
                                                        !.cb = "drain_last"]]
    /\ UNCHANGED <<chan, chist>>
    /\ ChanFrame

\* the drain is over: the callback returns to the event loop
EventLoopCallback_EndAfterDrain(p) ==
    /\ p = Consumer
    /\ cthread[p].pc = "ret"
    /\ cthread[p].cb = "drain_last"
    /\ cthread' = [cthread EXCEPT ![p] = NoCall]
    /\ UNCHANGED <<chan, chist>>
    /\ ChanFrame

\* the bridge with a consumer that takes either order, callback by callback
OrderNext ==
    \/ \E p \in Senders :
          \/ r_chan_send_Begin(p)
          \/ r_chan_send_Enqueue(p)
          \/ r_chan_send_Pipe(p)
          \/ r_chan_Return(p)
    \/ \E p \in {Consumer} :
          \/ EventLoopCallback_Begin(p)
          \/ r_chan_drain_signal_Read(p)
          \/ EventLoopCallback_TryRecv(p)
          \/ r_chan_recv_Check(p)
          \/ EventLoopCallback_End(p)
          \/ EventLoopCallback_BeginRecvFirst(p)
          \/ EventLoopCallback_RecvNext(p)
          \/ EventLoopCallback_DrainLast(p)
          \/ EventLoopCallback_EndAfterDrain(p)

OrderSpec == BridgeInit /\ [][OrderNext]_vars

\* =========================================== typed results to output values
\* What r_int_function, r_double_function and r_bool_function make of the
\* r_typed_result_t that execute_r_eval_typed filled in.  A number is its
\* whole part w (the fraction dropped, towards zero), f = 1 when it has a
\* fraction, and big when it is a double beyond the range of int32_t.
INT32_MAX == 2147483647
INT32_MIN == -INT32_MAX - 1

Num(w, f, big) == [w |-> w, f |-> f, big |-> big]
Zero == Num(0, 0, FALSE)
IntVals == {Num(n, 0, FALSE) : n \in (-MaxAbs)..MaxAbs}
DoubleVals ==
    IntVals \cup {Num(n, 1, FALSE) : n \in (-MaxAbs)..MaxAbs} \cup {Num(0, 0, TRUE)}

\* r_result_type_t, lines 105-117
ScalarTags == {"R_RESULT_BOOL", "R_RESULT_INT", "R_RESULT_DOUBLE"}
OtherTags ==
    {"R_RESULT_STRING", "R_RESULT_RAW", "R_RESULT_BOOL_ARRAY", "R_RESULT_INT_ARRAY",
     "R_RESULT_DOUBLE_ARRAY", "R_RESULT_STRING_ARRAY"}

\* The results r_eval_typed_inner_callback (lines 214-310) and the guard
\* (lines 635-652) can leave: val is the active scalar (Zero where the tag
\* has none), is_na the missing marker, set for scalars and strings only.
TypedResults ==
    {[type |-> "R_RESULT_NULL", val |-> Zero, is_na |-> 0]}
    \cup {[type |-> "R_RESULT_ERROR", val |-> Zero, is_na |-> n] : n \in {0, 1}}
    \cup {[type |-> t, val |-> Zero, is_na |-> 1] : t \in ScalarTags \cup {"R_RESULT_STRING"}}
    \cup {[type |-> "R_RESULT_BOOL", val |-> Num(b, 0, FALSE), is_na |-> 0] : b \in {0, 1}}
    \cup {[type |-> "R_RESULT_INT", val |-> v, is_na |-> 0] : v \in IntVals}
    \cup {[type |-> "R_RESULT_DOUBLE", val |-> v, is_na |-> 0] : v \in DoubleVals}
    \cup {[type |-> t, val |-> Zero, is_na |-> 0] : t \in OtherTags}

\* the column type of the three table functions
Hints == {"Integer", "Float", "Bool"}

\* (int32_t)d for a double d: the fraction is dropped; a value out of range
\* is undefined behaviour, and the builds give INT32_MIN (x86) or the
\* nearest bound (ARM)
CastInt32(d) ==
    IF d.big
    THEN {Num(INT32_MIN, 0, FALSE), Num(INT32_MAX, 0, FALSE)}
    ELSE {Num(d.w, 0, FALSE)}

\* x != 0
NonZero(v) == IF v.big \/ v.w # 0 \/ v.f # 0 THEN Num(1, 0, FALSE) ELSE Zero

\* the row the function writes: valid with a value, or invalid (NULL)
InvalidRow == [valid |-> FALSE, val |-> Zero]
ValidRow(v) == [valid |-> TRUE, val |-> v]

\* r_int_function, lines 687-705
r_int_function_Rows(res) ==
    IF res.type \in {"R_RESULT_ERROR", "R_RESULT_NULL"} THEN {InvalidRow}
    ELSE IF res.is_na # 0 THEN {InvalidRow}
    ELSE IF res.type = "R_RESULT_INT" THEN {ValidRow(res.val)}
    ELSE IF res.type = "R_RESULT_DOUBLE" THEN {ValidRow(v) : v \in CastInt32(res.val)}
    ELSE IF res.type = "R_RESULT_BOOL" THEN {ValidRow(res.val)}
    ELSE {InvalidRow}

\* r_double_function, lines 742-760
r_double_function_Rows(res) ==
    IF res.type \in {"R_RESULT_ERROR", "R_RESULT_NULL"} THEN {InvalidRow}
    ELSE IF res.is_na # 0 THEN {InvalidRow}
    ELSE IF res.type = "R_RESULT_DOUBLE" THEN {ValidRow(res.val)}
    ELSE IF res.type = "R_RESULT_INT" THEN {ValidRow(res.val)}
    ELSE IF res.type = "R_RESULT_BOOL" THEN {ValidRow(res.val)}
    ELSE {InvalidRow}

\* r_bool_function, lines 797-815
r_bool_function_Rows(res) ==
    IF res.type \in {"R_RESULT_ERROR", "R_RESULT_NULL"} THEN {InvalidRow}
    ELSE IF res.is_na # 0 THEN {InvalidRow}
    ELSE IF res.type \in ScalarTags THEN {ValidRow(NonZero(res.val))}
    ELSE {InvalidRow}

\* a result is handed to one of the three functions
ConvInit ==
    /\ DispatchInit
    /\ ChanInit
    /\ conv \in {[pc |-> "in", hint |-> h, res |-> r, row |-> InvalidRow] :
                    h \in Hints, r \in TypedResults}

r_int_function_Output ==
    /\ conv.pc = "in"
    /\ conv.hint = "Integer"
    /\ \E row \in r_int_function_Rows(conv.res) :
          conv' = [conv EXCEPT !.pc = "out", !.row = row]
    /\ UNCHANGED <<dispatchVars, chanVars>>

r_double_function_Output ==
    /\ conv.pc = "in"
    /\ conv.hint = "Float"
    /\ \E row \in r_double_function_Rows(conv.res) :
          conv' = [conv EXCEPT !.pc = "out", !.row = row]
    /\ UNCHANGED <<dispatchVars, chanVars>>

r_bool_function_Output ==
    /\ conv.pc = "in"
    /\ conv.hint = "Bool"
    /\ \E row \in r_bool_function_Rows(conv.res) :
          conv' = [conv EXCEPT !.pc = "out", !.row = row]
    /\ UNCHANGED <<dispatchVars, chanVars>>

ConvNext ==
    \/ r_int_function_Output
    \/ r_double_function_Output
    \/ r_bool_function_Output

ConvSpec == ConvInit /\ [][ConvNext]_vars

\* ============================================ the entry points, end to end
\* One call of a table or scalar function: what R does with the expression,
\* the typed result the callback and the guard make of it, the value the
\* function hands to DuckDB, and the storage allocated and freed on the way.

\* What R holds after evaluating the expression: a value (its SEXP type and
\* its elements), or the way the evaluation failed.  An element is NA or a
\* number; a string or a byte is a number that stands for its content.
RElems(t) ==
    CASE t = "LGLSXP" -> {[na |-> TRUE, v |-> Zero], [na |-> FALSE, v |-> Zero],
                          [na |-> FALSE, v |-> Num(1, 0, FALSE)]}
      [] t = "INTSXP" -> {[na |-> TRUE, v |-> Zero], [na |-> FALSE, v |-> Zero],
                          [na |-> FALSE, v |-> Num(MaxAbs, 0, FALSE)]}
      [] t = "REALSXP" -> {[na |-> TRUE, v |-> Zero], [na |-> FALSE, v |-> Zero],
                           [na |-> FALSE, v |-> Num(1, 1, FALSE)]}
      [] t = "STRSXP" -> {[na |-> TRUE, v |-> Zero], [na |-> FALSE, v |-> Zero]}
      [] t = "RAWSXP" -> {[na |-> FALSE, v |-> Zero]}
RValues ==
    {[type |-> t, elems |-> <<>>] : t \in {"NILSXP", "VECSXP"}}
    \cup UNION {{[type |-> t, elems |-> e] :
                    e \in UNION {[1..k -> RElems(t)] : k \in 0..MaxLen}} :
                t \in {"LGLSXP", "INTSXP", "REALSXP", "STRSXP", "RAWSXP"}}
\* the parser rejects the code, R_tryEval reports an error, or the callback
\* is left by a non-local exit while it parses or evaluates
RFailures == {[type |-> f, elems |-> <<>>] : f \in {"PARSE_ERROR", "EVAL_ERROR", "ABORTED"}}

\* An r_typed_result_t (lines 119-149).  val is the scalar member of the
\* union, data its pointer member (NULL, or the name of the member whose
\* block it points to), elts the elements behind data (for a string array
\* the element pointers, na standing for NULL); zeroed is FALSE while the
\* result is as the caller's stack left it, with nothing but type written.
NULL == "NULL"
TypedResult(type, is_na, val, data, elts) ==
    [type |-> type, is_na |-> is_na, val |-> val, data |-> data, elts |-> elts,
     zeroed |-> TRUE]

\* What a callback did: the result it filled in, whether it called
\* R_ParseVector, whether it defined .x in R_GlobalEnv, and the blocks it
\* allocated, each <<the member that points to it, 0>> or, for the i-th
\* string of a string array, <<"string_array.data", i>>.
Effect(res, parsed, bound, allocs) ==
    [res |-> res, parsed |-> parsed, bound |-> bound, allocs |-> allocs]

\* Mutant: a vector of any length of at least 1 is converted as a scalar.
IsScalarLength_AtLeastOne(len) == len >= 1

\* Rf_length(result) == 1, lines 218, 238, 254, 270
IsScalarLength(len) == len = 1

\* r_eval_typed_inner_callback, lines 180-313.  The result is zeroed first;
\* a non-local exit leaves it as it was when parsing or evaluation was
\* left.  malloc(len * size) gives a block, and for len = 0 a block or NULL.
r_eval_typed_inner_callback(rt) ==
    LET len == Len(rt.elems)
        empty(tag) == {Effect(TypedResult(tag, 0, Zero, NULL, <<>>), TRUE, FALSE, {})}
        scalar(tag) ==
            IF rt.elems[1].na
            THEN {Effect(TypedResult(tag, 1, Zero, NULL, <<>>), TRUE, FALSE, {})}
            ELSE {Effect(TypedResult(tag, 0, rt.elems[1].v, NULL, <<>>), TRUE, FALSE, {})}
        string == {Effect(TypedResult("R_RESULT_STRING", 0, Zero, "string_val", <<>>),
                          TRUE, FALSE, {<<"string_val", 0>>})}
        strings == {<<"string_array.data", i>> : i \in {j \in 1..len : ~rt.elems[j].na}}
        array(tag, member, elements) ==
            {Effect(TypedResult(tag, 0, Zero, d, rt.elems), TRUE, FALSE,
                    (IF d = NULL THEN {} ELSE {<<d, 0>>}) \cup elements) :
                d \in IF len = 0 THEN {NULL, member} ELSE {member}}
    IN  IF rt.type \in {"PARSE_ERROR", "EVAL_ERROR"} THEN empty("R_RESULT_ERROR")
        ELSE IF rt.type \in {"ABORTED", "NILSXP"} THEN empty("R_RESULT_NULL")
        ELSE IF rt.type = "LGLSXP"
        THEN IF IsScalarLength(len) THEN scalar("R_RESULT_BOOL")
             ELSE array("R_RESULT_BOOL_ARRAY", "bool_array.data", {})
        ELSE IF rt.type = "INTSXP"
        THEN IF IsScalarLength(len) THEN scalar("R_RESULT_INT")
             ELSE array("R_RESULT_INT_ARRAY", "int_array.data", {})
        ELSE IF rt.type = "REALSXP"
        THEN IF IsScalarLength(len) THEN scalar("R_RESULT_DOUBLE")
             ELSE array("R_RESULT_DOUBLE_ARRAY", "double_array.data", {})
        ELSE IF rt.type = "STRSXP"
        THEN IF IsScalarLength(len)
             THEN IF rt.elems[1].na
                  THEN {Effect(TypedResult("R_RESULT_STRING", 1, Zero, NULL, <<>>),
                               TRUE, FALSE, {})}
                  ELSE string
             ELSE array("R_RESULT_STRING_ARRAY", "string_array.data", strings)
        ELSE IF rt.type = "RAWSXP"
        THEN IF len > 0
             THEN {Effect(TypedResult("R_RESULT_RAW", 0, Zero, "raw.data", rt.elems),
                          TRUE, FALSE, {<<"raw.data", 0>>})}
             ELSE empty("R_RESULT_RAW")
        ELSE string

\* Mutant: .x is defined before the injected value is tested for NULL.
r_eval_with_x_inner_callback_BindsFirst(x_is_null, rt) ==
    {Effect(TypedResult("R_RESULT_DOUBLE", 1, Zero, NULL, <<>>), FALSE, TRUE, {})}

\* r_eval_with_x_inner_callback, lines 1300-1377
r_eval_with_x_inner_callback(x_is_null, rt) ==
    LET empty(tag) == {Effect(TypedResult(tag, 0, Zero, NULL, <<>>), TRUE, TRUE, {})}
        first ==
            IF rt.elems[1].na THEN TypedResult("R_RESULT_DOUBLE", 1, Zero, NULL, <<>>)
            ELSE TypedResult("R_RESULT_DOUBLE", 0, rt.elems[1].v, NULL, <<>>)
    IN  IF x_is_null # 0
        THEN {Effect(TypedResult("R_RESULT_DOUBLE", 1, Zero, NULL, <<>>), FALSE, FALSE, {})}
        ELSE IF rt.type \in {"PARSE_ERROR", "EVAL_ERROR"} THEN empty("R_RESULT_ERROR")
        ELSE IF rt.type \in {"ABORTED", "NILSXP"} THEN empty("R_RESULT_NULL")
        ELSE IF rt.type \in {"REALSXP", "INTSXP", "LGLSXP"} /\ Len(rt.elems) >= 1
        THEN {Effect(first, TRUE, TRUE, {})}
        ELSE empty("R_RESULT_ERROR")

\* r_eval_with_str_inner_callback, lines 1481-1568
r_eval_with_str_inner_callback(x_is_null, rt) ==
    LET empty(tag) == {Effect(TypedResult(tag, 0, Zero, NULL, <<>>), TRUE, TRUE, {})}
        string == {Effect(TypedResult("R_RESULT_STRING", 0, Zero, "string_val", <<>>),
                          TRUE, TRUE, {<<"string_val", 0>>})}
    IN  IF x_is_null # 0
        THEN {Effect(TypedResult("R_RESULT_STRING", 1, Zero, NULL, <<>>), FALSE, FALSE, {})}
        ELSE IF rt.type \in {"PARSE_ERROR", "EVAL_ERROR"} THEN empty("R_RESULT_ERROR")
        ELSE IF rt.type \in {"ABORTED", "NILSXP"} THEN empty("R_RESULT_NULL")
        ELSE IF rt.type \in {"STRSXP", "REALSXP", "INTSXP", "LGLSXP"} /\ Len(rt.elems) >= 1
        THEN IF rt.elems[1].na
             THEN {Effect(TypedResult("R_RESULT_STRING", 1, Zero, NULL, <<>>), TRUE, TRUE, {})}
             ELSE string
        ELSE string

\* The guard around a typed callback: execute_r_eval_typed (lines 634-655),
\* execute_r_eval_with_x (1380-1404), execute_r_eval_with_str (1570-1594).
\* A denied call writes type and error_msg into a result that nothing has
\* zeroed: is_na and the union hold what the stack held.  When the callback
\* was left while it parsed or evaluated, R_ToplevelExec returns FALSE and
\* the type is overwritten.
Guarded(busy, rt, effects) ==
    IF busy # 0
    THEN {Effect([type |-> "R_RESULT_ERROR", is_na |-> n, val |-> Zero, data |-> d,
                  elts |-> <<>>, zeroed |-> FALSE], FALSE, FALSE, {}) :
             n \in {0, 1}, d \in {NULL, "uninitialised"}}
    ELSE IF rt.type = "ABORTED"
    THEN {IF e.parsed THEN [e EXCEPT !.res.type = "R_RESULT_ERROR"] ELSE e : e \in effects}
    ELSE effects

\* r_eval_inner_callback (lines 323-387), execute_r_eval (390-417) and
\* r_udf_eval_string called where it executes directly (545-577): the text
\* left in the result buffer and the value returned
r_udf_eval_string_Result(busy, rt) ==
    IF busy # 0 THEN [text |-> "REENTRANCE_ERROR", rc |-> -1]
    ELSE IF rt.type = "ABORTED" THEN [text |-> "R_TOPLEVEL_ERROR", rc |-> -1]
    ELSE IF rt.type \in {"PARSE_ERROR", "EVAL_ERROR"} THEN [text |-> rt.type, rc |-> -1]
    ELSE IF rt.type = "NILSXP" THEN [text |-> "NULL", rc |-> 0]
    ELSE IF rt.type = "STRSXP" /\ Len(rt.elems) > 0 THEN [text |-> "%s", rc |-> 0]
    ELSE IF rt.type \in {"INTSXP", "REALSXP", "LGLSXP"} /\ Len(rt.elems) > 0
    THEN IF rt.elems[1].na THEN [text |-> "NA", rc |-> 0] ELSE [text |-> "%value", rc |-> 0]
    ELSE [text |-> "<R:%d>", rc |-> 0]

\* what a release did: the blocks passed to free(), in order, and the
\* members of the union it read
Release(freed, reads) == [freed |-> freed, reads |-> reads]
RECURSIVE FreeStrings(_, _)
FreeStrings(elts, i) ==
    IF i > Len(elts) THEN <<>>
    ELSE (IF elts[i].na THEN <<>> ELSE << <<"string_array.data", i>> >>)
         \o FreeStrings(elts, i + 1)

\* Mutant: string_val is freed whenever it is not NULL, whatever the tag.
\* The members of the union share their storage: string_val is not NULL
\* when the active scalar is not zero or the active pointer is not NULL.
r_typed_result_free_NoTagTest(res) ==
    IF res.data # NULL \/ res.val # Zero
    THEN Release(<< <<"string_val", 0>> >>, {"string_val"})
    ELSE Release(<<>>, {"string_val"})

\* r_typed_result_free, lines 152-169
r_typed_result_free(res) ==
    LET freed(member) == IF res.data # NULL THEN << <<member, 0>> >> ELSE <<>>
    IN  IF res.type = "R_RESULT_STRING" THEN Release(freed("string_val"), {"string_val"})
        ELSE IF res.type = "R_RESULT_RAW" THEN Release(freed("raw.data"), {"raw"})
        ELSE IF res.type = "R_RESULT_BOOL_ARRAY"
        THEN Release(freed("bool_array.data"), {"bool_array"})
        ELSE IF res.type = "R_RESULT_INT_ARRAY"
        THEN Release(freed("int_array.data"), {"int_array"})
        ELSE IF res.type = "R_RESULT_DOUBLE_ARRAY"
        THEN Release(freed("double_array.data"), {"double_array"})
        ELSE IF res.type = "R_RESULT_STRING_ARRAY"
        THEN Release(IF res.data # NULL
                     THEN FreeStrings(res.elts, 1) \o << <<"string_array.data", 0>> >>
                     ELSE <<>>,
                     {"string_array"})
        ELSE Release(<<>>, {})

\* What a function hands to DuckDB for the row: an error raised on the
\* function, or the row, valid with a value or a list, or invalid (NULL);
\* with it the members of the union the function read and the blocks passed
\* to free().  An element of a list is valid and written (Child), valid and
\* never written (it holds what the child vector held), or invalid.
Output(err, row, list, reads, rel) ==
    [err |-> err, valid |-> row.valid, val |-> row.val, list |-> list,
     reads |-> reads \cup rel.reads, freed |-> rel.freed]
\* duckdb_function_set_error(info, result.error_msg); return
RaisedError == Output(TRUE, InvalidRow, <<>>, {}, Release(<<>>, {}))
Child(v) == [valid |-> TRUE, written |-> TRUE, v |-> v]
Unwritten == [valid |-> TRUE, written |-> FALSE, v |-> Zero]
InvalidChild == [valid |-> FALSE, written |-> FALSE, v |-> Zero]

\* NA_INTEGER is INT_MIN; memcpy keeps the bits R gave an element of an
\* array
NA_INTEGER == Num(INT32_MIN, 0, FALSE)

\* the scalar member the chains of lines 687-705, 742-760 and 797-815 read
ScalarRead(res) ==
    IF res.type \in {"R_RESULT_ERROR", "R_RESULT_NULL"} \/ res.is_na # 0 THEN {}
    ELSE IF res.type = "R_RESULT_INT" THEN {"int_val"}
    ELSE IF res.type = "R_RESULT_DOUBLE" THEN {"double_val"}
    ELSE IF res.type = "R_RESULT_BOOL" THEN {"bool_val"}
    ELSE {}

\* ------------------------------------------------- one call, entry to row
TypedFns ==
    {"r_int", "r_double", "r_bool", "r_vector_int", "r_vector_double",
     "r_vector_varchar", "r_vector_bool", "r_raw"}
InjectFns == {"rx", "rx_str"}

\* The call is made with no call to R in flight, or while one is: from the R
\* code that the main thread is evaluating, or from another thread.
BusyInit ==
    /\ g_async_initialized = 0
    /\ g_in_r_call = 1
    /\ g_r_main_thread = NoThread
    /\ g_request_pipe = <<-1, -1>>
    /\ g_input_handler = 0
    /\ g_init_mutex = NoThread
    /\ pipeBuf = <<>>
    /\ stack = [t \in Threads |->
                   IF t = RMainThread
                   THEN <<[NoFrame EXCEPT !.op = "typed", !.pc = "g_run"]>>
                   ELSE <<>>]
    /\ snap = {}
    /\ hist = [initFails |-> 0, pipesCreated |-> 0, pipesOpen |-> 0,
               handlersRegistered |-> 0, initRets |-> {}]

\* A call about to be made: the function, whether the injected value is
\* NULL (rx and rx_str only), what R will make of the expression, and the
\* r_typed_result_t on the caller's stack and the row, not yet written.
EntryInit ==
    /\ DispatchInit \/ BusyInit
    /\ ChanInit
    /\ conv \in
          {[pc |-> "call", fn |-> f, x_is_null |-> x, rt |-> r,
            res |-> [type |-> "unset", is_na |-> 0, val |-> Zero, data |-> NULL,
                     elts |-> <<>>, zeroed |-> FALSE],
            parsed |-> FALSE, bound |-> FALSE, allocs |-> {},
            str |-> [text |-> "unset", rc |-> 0],
            out |-> Output(FALSE, InvalidRow, <<>>, {}, Release(<<>>, {}))] :
              f \in {"r_eval"} \cup TypedFns \cup InjectFns,
              x \in {0, 1},
              r \in RValues \cup RFailures}
    /\ conv.x_is_null = 0 \/ conv.fn \in InjectFns

\* r_udf_eval_string, lines 545-577, executing directly
r_udf_eval_string_Run ==
    /\ conv.pc = "call"
    /\ conv.fn = "r_eval"
    /\ conv' = [conv EXCEPT !.pc = "result",
                            !.str = r_udf_eval_string_Result(g_in_r_call, conv.rt),
                            !.parsed = g_in_r_call = 0]
    /\ UNCHANGED <<dispatchVars, chanVars>>

\* execute_r_eval_typed, lines 634-655
execute_r_eval_typed_Run ==
    /\ conv.pc = "call"
    /\ conv.fn \in TypedFns
    /\ \E e \in Guarded(g_in_r_call, conv.rt, r_eval_typed_inner_callback(conv.rt)) :
          conv' = [conv EXCEPT !.pc = "result", !.res = e.res, !.parsed = e.parsed,
                               !.bound = e.bound, !.allocs = e.allocs]
    /\ UNCHANGED <<dispatchVars, chanVars>>

\* execute_r_eval_with_x, lines 1380-1404
execute_r_eval_with_x_Run ==
    /\ conv.pc = "call"
    /\ conv.fn = "rx"
    /\ \E e \in Guarded(g_in_r_call, conv.rt,
                        r_eval_with_x_inner_callback(conv.x_is_null, conv.rt)) :
          conv' = [conv EXCEPT !.pc = "result", !.res = e.res, !.parsed = e.parsed,
                               !.bound = e.bound, !.allocs = e.allocs]
    /\ UNCHANGED <<dispatchVars, chanVars>>

\* execute_r_eval_with_str, lines 1570-1594
execute_r_eval_with_str_Run ==
    /\ conv.pc = "call"
    /\ conv.fn = "rx_str"
    /\ \E e \in Guarded(g_in_r_call, conv.rt,
                        r_eval_with_str_inner_callback(conv.x_is_null, conv.rt)) :
          conv' = [conv EXCEPT !.pc = "result", !.res = e.res, !.parsed = e.parsed,
                               !.bound = e.bound, !.allocs = e.allocs]
    /\ UNCHANGED <<dispatchVars, chanVars>>

\* r_eval_function, lines 611-628: the text is the value of the row,
\* whatever r_udf_eval_string returned
r_eval_function_Finish ==
    /\ conv.pc = "result"
    /\ conv.fn = "r_eval"
    /\ conv' = [conv EXCEPT !.pc = "done",
                            !.out = Output(FALSE, ValidRow(Zero), <<>>, {},
                                           Release(<<>>, {}))]
    /\ UNCHANGED <<dispatchVars, chanVars>>

\* r_int_function, lines 673-710
r_int_function_Finish ==
    /\ conv.pc = "result"
    /\ conv.fn = "r_int"
    /\ \E row \in r_int_function_Rows(conv.res) :
          conv' = [conv EXCEPT !.pc = "done",
                               !.out = Output(FALSE, row, <<>>, ScalarRead(conv.res),
                                              r_typed_result_free(conv.res))]
    /\ UNCHANGED <<dispatchVars, chanVars>>

\* r_double_function, lines 728-765
r_double_function_Finish ==
    /\ conv.pc = "result"
    /\ conv.fn = "r_double"
    /\ \E row \in r_double_function_Rows(conv.res) :
          conv' = [conv EXCEPT !.pc = "done",
                               !.out = Output(FALSE, row, <<>>, ScalarRead(conv.res),
                                              r_typed_result_free(conv.res))]
    /\ UNCHANGED <<dispatchVars, chanVars>>

\* r_bool_function, lines 783-820
r_bool_function_Finish ==
    /\ conv.pc = "result"
    /\ conv.fn = "r_bool"
    /\ \E row \in r_bool_function_Rows(conv.res) :
          conv' = [conv EXCEPT !.pc = "done",
                               !.out = Output(FALSE, row, <<>>, ScalarRead(conv.res),
                                              r_typed_result_free(conv.res))]
    /\ UNCHANGED <<dispatchVars, chanVars>>

\* r_vector_int_function, lines 843-898: the length of the list is set from
\* the tag alone, the element of a scalar is written only when it is not NA.
\* (int32_t) of an element of a double array that is NA, a NaN, is
\* undefined, and the builds give INT32_MIN (x86) or 0 (ARM).
r_vector_int_function_Finish ==
    LET res == conv.res
        n == Len(res.elts)
        cast(e) == IF e.na THEN {NA_INTEGER, Zero} ELSE CastInt32(e.v)
        casts == [i \in 1..n |-> {Child(v) : v \in cast(res.elts[i])}]
        lists ==
            IF res.type = "R_RESULT_INT_ARRAY"
            THEN IF res.data # NULL
                 THEN {[i \in 1..n |-> IF res.elts[i].na THEN Child(NA_INTEGER)
                                       ELSE Child(res.elts[i].v)]}
                 ELSE {[i \in 1..n |-> Unwritten]}
            ELSE IF res.type = "R_RESULT_INT"
            THEN IF res.is_na = 0 THEN {<<Child(res.val)>>} ELSE {<<Unwritten>>}
            ELSE IF res.type = "R_RESULT_DOUBLE_ARRAY"
            THEN {l \in [1..n -> UNION {casts[i] : i \in 1..n}] :
                     \A i \in 1..n : l[i] \in casts[i]}
            ELSE IF res.type = "R_RESULT_DOUBLE"
            THEN IF res.is_na = 0 THEN {<<Child(v)>> : v \in CastInt32(res.val)}
                 ELSE {<<Unwritten>>}
            ELSE {<<>>}
        reads ==
            IF res.type = "R_RESULT_INT_ARRAY" THEN {"int_array"}
            ELSE IF res.type = "R_RESULT_INT" THEN IF res.is_na = 0 THEN {"int_val"} ELSE {}
            ELSE IF res.type = "R_RESULT_DOUBLE_ARRAY" THEN {"double_array"}
            ELSE IF res.type = "R_RESULT_DOUBLE"
            THEN IF res.is_na = 0 THEN {"double_val"} ELSE {}
            ELSE {}
    IN  /\ conv.pc = "result"
        /\ conv.fn = "r_vector_int"
        /\ \E l \in lists :
              conv' = [conv EXCEPT !.pc = "done",
                                   !.out = Output(FALSE, ValidRow(Zero), l, reads,
                                                  r_typed_result_free(res))]
        /\ UNCHANGED <<dispatchVars, chanVars>>

\* r_vector_double_function, lines 920-968: a double array is copied as it
\* is, NA (a NaN, a double with no int32_t value) included
r_vector_double_function_Finish ==
    LET res == conv.res
        n == Len(res.elts)
        list ==
            IF res.type = "R_RESULT_DOUBLE_ARRAY"
            THEN [i \in 1..n |-> IF res.elts[i].na THEN Child(Num(0, 0, TRUE))
                                 ELSE Child(res.elts[i].v)]
            ELSE IF res.type = "R_RESULT_INT_ARRAY"
            THEN [i \in 1..n |-> IF res.elts[i].na THEN Child(NA_INTEGER)
                                 ELSE Child(res.elts[i].v)]
            ELSE IF res.type \in {"R_RESULT_DOUBLE", "R_RESULT_INT"}
            THEN IF res.is_na = 0 THEN <<Child(res.val)>> ELSE <<Unwritten>>
            ELSE <<>>
        reads ==
            IF res.type = "R_RESULT_DOUBLE_ARRAY" THEN {"double_array"}
            ELSE IF res.type = "R_RESULT_INT_ARRAY" THEN {"int_array"}
            ELSE IF res.type = "R_RESULT_DOUBLE"
            THEN IF res.is_na = 0 THEN {"double_val"} ELSE {}
            ELSE IF res.type = "R_RESULT_INT" THEN IF res.is_na = 0 THEN {"int_val"} ELSE {}
            ELSE {}
    IN  /\ conv.pc = "result"
        /\ conv.fn = "r_vector_double"
        /\ conv' = [conv EXCEPT !.pc = "done",
                                !.out = Output(FALSE, ValidRow(Zero), list, reads,
                                               r_typed_result_free(res))]
        /\ UNCHANGED <<dispatchVars, chanVars>>

\* r_vector_varchar_function, lines 992-1050
r_vector_varchar_function_Finish ==
    LET res == conv.res
        list ==
            IF res.type = "R_RESULT_STRING_ARRAY"
            THEN [i \in 1..Len(res.elts) |-> IF res.elts[i].na THEN InvalidChild
                                             ELSE Child(res.elts[i].v)]
            ELSE IF res.type = "R_RESULT_STRING" /\ res.is_na = 0 THEN <<Child(res.val)>>
            ELSE <<>>
        reads ==
            IF res.type = "R_RESULT_STRING_ARRAY" THEN {"string_array"}
            ELSE IF res.type = "R_RESULT_STRING" /\ res.is_na = 0 THEN {"string_val"}
            ELSE {}
    IN  /\ conv.pc = "result"
        /\ conv.fn = "r_vector_varchar"
        /\ conv' = [conv EXCEPT !.pc = "done",
                                !.out = IF res.type = "R_RESULT_ERROR" THEN RaisedError
                                        ELSE Output(FALSE, ValidRow(Zero), list, reads,
                                                    r_typed_result_free(res))]
        /\ UNCHANGED <<dispatchVars, chanVars>>

\* r_vector_bool_function, lines 1074-1134
r_vector_bool_function_Finish ==
    LET res == conv.res
        list ==
            IF res.type = "R_RESULT_BOOL_ARRAY"
            THEN [i \in 1..Len(res.elts) |-> IF res.elts[i].na THEN InvalidChild
                                             ELSE Child(NonZero(res.elts[i].v))]
            ELSE IF res.type = "R_RESULT_BOOL" /\ res.is_na = 0
            THEN <<Child(NonZero(res.val))>>
            ELSE <<>>
        reads ==
            IF res.type = "R_RESULT_BOOL_ARRAY" THEN {"bool_array"}
            ELSE IF res.type = "R_RESULT_BOOL" /\ res.is_na = 0 THEN {"bool_val"}
            ELSE {}
    IN  /\ conv.pc = "result"
        /\ conv.fn = "r_vector_bool"
        /\ conv' = [conv EXCEPT !.pc = "done",
                                !.out = IF res.type = "R_RESULT_ERROR" THEN RaisedError
                                        ELSE Output(FALSE, ValidRow(Zero), list, reads,
                                                    r_typed_result_free(res))]
        /\ UNCHANGED <<dispatchVars, chanVars>>

\* r_raw_function, lines 1154-1199
r_raw_function_Finish ==
    LET res == conv.res
    IN  /\ conv.pc = "result"
        /\ conv.fn = "r_raw"
        /\ conv' = [conv EXCEPT
                      !.pc = "done",
                      !.out = IF res.type = "R_RESULT_ERROR" THEN RaisedError
                              ELSE IF res.type = "R_RESULT_NULL" \/ res.is_na # 0
                              THEN Output(FALSE, InvalidRow, <<>>, {},
                                          r_typed_result_free(res))
                              ELSE IF res.type = "R_RESULT_RAW"
                              THEN Output(FALSE, ValidRow(Zero), <<>>, {"raw"},
                                          r_typed_result_free(res))
                              ELSE Output(FALSE, InvalidRow, <<>>, {},
                                          r_typed_result_free(res))]
        /\ UNCHANGED <<dispatchVars, chanVars>>

\* rx_scalar_function, one row of the loop of lines 1446-1464; the result
\* is not released
rx_scalar_function_Finish ==
    LET res == conv.res
    IN  /\ conv.pc = "result"
        /\ conv.fn = "rx"
        /\ conv' = [conv EXCEPT
                      !.pc = "done",
                      !.out = IF res.type = "R_RESULT_ERROR" THEN RaisedError
                              ELSE IF res.is_na # 0 \/ res.type = "R_RESULT_NULL"
                              THEN Output(FALSE, InvalidRow, <<>>, {}, Release(<<>>, {}))
                              ELSE Output(FALSE, ValidRow(res.val), <<>>, {"double_val"},
                                          Release(<<>>, {}))]
        /\ UNCHANGED <<dispatchVars, chanVars>>

\* rx_str_scalar_function, one row of the loop of lines 1632-1653: the
\* function frees the string itself
rx_str_scalar_function_Finish ==
    LET res == conv.res
    IN  /\ conv.pc = "result"
        /\ conv.fn = "rx_str"
        /\ conv' = [conv EXCEPT
                      !.pc = "done",
                      !.out = IF res.type = "R_RESULT_ERROR" THEN RaisedError
                              ELSE IF res.is_na # 0 \/ res.type = "R_RESULT_NULL"
                              THEN Output(FALSE, InvalidRow, <<>>, {}, Release(<<>>, {}))
                              ELSE IF res.data # NULL
                              THEN Output(FALSE, ValidRow(res.val), <<>>, {"string_val"},
                                          Release(<< <<"string_val", 0>> >>, {}))
                              ELSE Output(FALSE, ValidRow(Zero), <<>>, {"string_val"},
                                          Release(<<>>, {}))]
        /\ UNCHANGED <<dispatchVars, chanVars>>

EntryNext ==
    \/ r_udf_eval_string_Run
    \/ execute_r_eval_typed_Run
    \/ execute_r_eval_with_x_Run
    \/ execute_r_eval_with_str_Run
    \/ r_eval_function_Finish
    \/ r_int_function_Finish
    \/ r_double_function_Finish
    \/ r_bool_function_Finish
    \/ r_vector_int_function_Finish
    \/ r_vector_double_function_Finish
    \/ r_vector_varchar_function_Finish
    \/ r_vector_bool_function_Finish
    \/ r_raw_function_Finish
    \/ rx_scalar_function_Finish
    \/ rx_str_scalar_function_Finish

EntrySpec == EntryInit /\ [][EntryNext]_vars

\* =============================================== the scans of one bind
\* DuckDB calls a table function's scan function again and again on one bind
\* until it hands back an empty chunk.  conv holds the bind and what the
\* scans did: fn the table function, rt what R makes of the bind's r_code,
\* done the bind's done field, scans the calls made so far, invoked the
\* times a call entered the R callback, size the chunk size the last call
\* set (-1: it set none), err whether the last call raised an error on the
\* function, rows the rows handed back so far.
\* Bind (lines 592-603, 660-667, 1210-1213, 1250-1253): done = 0.
ScanInit ==
    /\ DispatchInit \/ BusyInit
    /\ ChanInit
    /\ conv \in
          {[pc |-> "scan", fn |-> f, rt |-> r, done |-> 0, scans |-> 0,
            invoked |-> 0, size |-> -1, err |-> FALSE, rows |-> 0] :
              f \in {"r_eval", "r_status"} \cup TypedFns,
              r \in RValues \cup RFailures}

\* the call finds done set: lines 614-617, 676-679, 995-998, 1264-1267
EmptyChunk == [conv EXCEPT !.scans = @ + 1, !.size = 0, !.err = FALSE]
\* the call hands back one row and sets done, having entered R n times
OneRow(n) ==
    [conv EXCEPT !.scans = @ + 1, !.size = 1, !.err = FALSE, !.rows = @ + 1,
                 !.invoked = @ + n, !.done = 1]

\* r_eval_function, lines 611-628
r_eval_function_Scan ==
    /\ conv.pc = "scan"
    /\ conv.fn = "r_eval"
    /\ conv.scans < MaxScans
    /\ conv' = IF conv.done # 0 THEN EmptyChunk
               ELSE OneRow(IF r_udf_eval_string_Result(g_in_r_call, conv.rt).text
                                 = "REENTRANCE_ERROR" THEN 0 ELSE 1)
    /\ UNCHANGED <<dispatchVars, chanVars>>

\* r_int_function (lines 673-710), r_double_function (728-765),
\* r_bool_function (783-820), r_vector_int_function (843-898),
\* r_vector_double_function (920-968): whatever the result, one row
r_int_function_Scan ==
    /\ conv.pc = "scan"
    /\ conv.fn \in {"r_int", "r_double", "r_bool", "r_vector_int", "r_vector_double"}
    /\ conv.scans < MaxScans
    /\ \E e \in Guarded(g_in_r_call, conv.rt, r_eval_typed_inner_callback(conv.rt)) :
          conv' = IF conv.done # 0 THEN EmptyChunk
                  ELSE OneRow(IF e.parsed THEN 1 ELSE 0)
    /\ UNCHANGED <<dispatchVars, chanVars>>

\* Mutant: the return after duckdb_function_set_error leaves done clear.
r_vector_varchar_function_Scan_ErrorNotDone ==
    /\ conv.pc = "scan"
    /\ conv.fn \in {"r_vector_varchar", "r_vector_bool", "r_raw"}
    /\ conv.scans < MaxScans
    /\ \E e \in Guarded(g_in_r_call, conv.rt, r_eval_typed_inner_callback(conv.rt)) :
          conv' = IF conv.done # 0 THEN EmptyChunk
                  ELSE IF e.res.type = "R_RESULT_ERROR"
                  THEN [conv EXCEPT !.scans = @ + 1, !.size = -1, !.err = TRUE,
                                    !.invoked = @ + (IF e.parsed THEN 1 ELSE 0)]
                  ELSE OneRow(IF e.parsed THEN 1 ELSE 0)
    /\ UNCHANGED <<dispatchVars, chanVars>>

\* r_vector_varchar_function (lines 992-1050), r_vector_bool_function
\* (1074-1134), r_raw_function (1154-1199): an error result is raised on the
\* function, done is set and the call returns without setting a chunk size
\* (1006-1010, 1088-1092, 1168-1172); every other result is one row.
r_vector_varchar_function_Scan ==
    /\ conv.pc = "scan"
    /\ conv.fn \in {"r_vector_varchar", "r_vector_bool", "r_raw"}
    /\ conv.scans < MaxScans
    /\ \E e \in Guarded(g_in_r_call, conv.rt, r_eval_typed_inner_callback(conv.rt)) :
          conv' = IF conv.done # 0 THEN EmptyChunk
                  ELSE IF e.res.type = "R_RESULT_ERROR"
                  THEN [conv EXCEPT !.scans = @ + 1, !.size = -1, !.err = TRUE,
                                    !.invoked = @ + (IF e.parsed THEN 1 ELSE 0),
                                    !.done = 1]
                  ELSE OneRow(IF e.parsed THEN 1 ELSE 0)
    /\ UNCHANGED <<dispatchVars, chanVars>>

\* r_status_function, lines 1261-1284: one row read from the statics, R is
\* not entered
r_status_function_Scan ==
    /\ conv.pc = "scan"
    /\ conv.fn = "r_status"
    /\ conv.scans < MaxScans
    /\ conv' = IF conv.done # 0 THEN EmptyChunk ELSE OneRow(0)
    /\ UNCHANGED <<dispatchVars, chanVars>>

ScanNext ==
    \/ r_eval_function_Scan
    \/ r_int_function_Scan
    \/ r_vector_varchar_function_Scan
    \/ r_status_function_Scan

ScanSpec == ScanInit /\ [][ScanNext]_vars

\* ===================================== the deadline of a timed wait
\* Mutant: the carry is made only when the sum is above a second.
cond_timedwait_abs_time_CarryAbove(now, timeout) ==
    LET sec == now.tv_sec + timeout.tv_sec
        nsec == now.tv_nsec + timeout.tv_nsec
    IN  IF nsec > NSEC_PER_SEC
        THEN [tv_sec |-> sec + 1, tv_nsec |-> nsec - NSEC_PER_SEC, sum |-> nsec]
        ELSE [tv_sec |-> sec, tv_nsec |-> nsec, sum |-> nsec]

\* cond_timedwait, r_chan.c lines 41-48: abs_time is the clock reading, the
\* two fields of the timeout are added to it field by field, and one second
\* is carried when tv_nsec has reached 10^9.  sum is tv_nsec as line 44
\* leaves it, before the carry.
cond_timedwait_abs_time(now, timeout) ==
    LET sec == now.tv_sec + timeout.tv_sec
        nsec == now.tv_nsec + timeout.tv_nsec
    IN  IF nsec >= NSEC_PER_SEC
        THEN [tv_sec |-> sec + 1, tv_nsec |-> nsec - NSEC_PER_SEC, sum |-> nsec]
        ELSE [tv_sec |-> sec, tv_nsec |-> nsec, sum |-> nsec]

\* A call of cond_timedwait about to be made: the timeout argument (ptr is
\* one of the two sentinel pointers, or the address of a relative timespec
\* with the two fields) and the clock reading that clock_gettime will give;
\* abs_time is not yet written.  The nanosecond fields are taken at and next to
\* the ends of their range and at the half second.
DeadlineInit ==
    LET Nsecs == {0, 1, NSEC_PER_SEC \div 2, NSEC_PER_SEC - 2, NSEC_PER_SEC - 1}
        Times == [tv_sec : 0..MaxTime, tv_nsec : Nsecs]
        Args ==
            {[ptr |-> p, tv_sec |-> 0, tv_nsec |-> 0] :
                p \in {"R_CHAN_NO_WAIT", "R_CHAN_NO_TIMEOUT"}}
            \cup {[ptr |-> "relative", tv_sec |-> t.tv_sec, tv_nsec |-> t.tv_nsec] :
                     t \in Times}
    IN  /\ DispatchInit
        /\ ChanInit
        /\ conv \in {[pc |-> "cond_timedwait", timeout |-> t, now |-> n,
                       abs_time |-> [tv_sec |-> -1, tv_nsec |-> -1, sum |-> -1],
                       rv |-> "none"] :
                         t \in Args, n \in Times}

\* cond_timedwait, lines 30-51: EAGAIN at once, pthread_cond_wait, or
\* pthread_cond_timedwait with the absolute time
cond_timedwait_Call ==
    /\ conv.pc = "cond_timedwait"
    /\ conv' = IF conv.timeout.ptr = "R_CHAN_NO_WAIT"
               THEN [conv EXCEPT !.pc = "ret", !.rv = "EAGAIN"]
               ELSE IF conv.timeout.ptr = "R_CHAN_NO_TIMEOUT"
               THEN [conv EXCEPT !.pc = "pthread_cond_wait"]
               ELSE [conv EXCEPT !.pc = "pthread_cond_timedwait",
                                 !.abs_time = cond_timedwait_abs_time(conv.now,
                                                                      conv.timeout)]
    /\ UNCHANGED <<dispatchVars, chanVars>>

DeadlineSpec == DeadlineInit /\ [][cond_timedwait_Call]_vars

\* ------------------------------------------------------------------ claims
Live == {q \in Frames : Exists(q)}
Calls == {q \in Live : FrameAt(q).op \in {"eval", "typed"}}
InGuardedCall == {q \in Live : FrameAt(q).pc = "g_run"}
\* the top-level call the recorded owner thread made for itself after
\* initialization, if it is in progress
OwnerCall(t) ==
    /\ t = RMainThread
    /\ g_async_initialized = 1
    /\ is_r_main_thread(t)
    /\ ~Idle(t)
    /\ stack[t][1].op = "eval"
    /\ stack[t][1].atInit = 1

\* C1: after initialization (by the thread that runs R), a call made on any
\* other thread never runs the guarded runtime call itself: every runtime
\* invocation of a call made after initialization is on the owner thread.
C1_RuntimeOnlyOnOwner ==
    (g_async_initialized = 1 /\ g_r_main_thread = RMainThread) =>
        \A q \in InGuardedCall : FrameAt(q).atInit = 1 => q[1] = g_r_main_thread

\* C2: at most one runtime invocation is inside the execution guard at any
\* time, over all threads.
C2_AtMostOneInGuard == Cardinality(InGuardedCall) <= 1

\* C3: when the owner thread's own call returns, every worker request that
\* was queued when the call began has completed; none is left waiting for a
\* later run of the event loop.
C3_QueuedCompleteWithOwnerCall ==
    \A t \in Threads :
        (OwnerCall(t) /\ stack[t][1].pc = "ret") => snap = {}

\* C4: the owner's own request enters the runtime only after every worker
\* request that was queued when the call began has been executed.
C4_QueuedExecutedBeforeOwner ==
    \A t \in Threads :
        (OwnerCall(t) /\ stack[t][1].pc = "g_run") => snap = {}

\* C5: a worker waiting for the completion of its queued request always
\* stops waiting eventually, whether or not the owner ever drains the request.
C5_WorkerWaitEnds ==
    \A t \in Threads :
        AtPc(t, {"eval"}, "s_wait") ~> ~AtPc(t, {"eval"}, "s_wait")

\* the request r points to exists, its submitter is still waiting inside
\* r_udf_submit_async_request, and its mutex and condition variable are
\* initialised and not destroyed
RequestValid(r) ==
    /\ Exists(r)
    /\ FrameAt(r).op = "eval"
    /\ FrameAt(r).pc = "s_wait"
    /\ FrameAt(r).mutex \in {"free", "held"}
\* C6: the input handler never touches a request its submitter has destroyed
\* or left behind: while the handler holds a request pointer (from reading it
\* off the pipe to its return after the unlock, its last access), and while
\* a pointer sits in the pipe, the request is valid, so the submitter
\* observes completion only after the handler's last access.
C6_NoAccessAfterDestroy ==
    /\ \A q \in Live : FrameAt(q).op = "handler" => RequestValid(FrameAt(q).ref)
    /\ \A i \in 1..Len(pipeBuf) : RequestValid(pipeBuf[i])
\* a submitter has seen its request completed by the handler and destroyed it
C6_Witness ==
    \E t \in Threads :
        /\ AtPc(t, {"eval"}, "ret")
        /\ Top(t).done = 1
        /\ Top(t).mutex = "destroyed"
        /\ Top(t).rt \in RuntimeOutcomes

C8_ExactlyOnePipeCreated ==
    g_async_initialized = 1 =>
        (hist.pipesCreated = 1 /\ hist.handlersRegistered = 1)
\* at most one pipe open and one handler registered; after the success
\* exactly one of each, no initialize call past its test, none failed since
C8_InitializedState ==
    /\ hist.pipesOpen <= 1
    /\ hist.handlersRegistered <= 1
    /\ g_async_initialized = 1 =>
          /\ hist.pipesOpen = 1
          /\ hist.handlersRegistered = 1
          /\ g_request_pipe = PipeFds(hist.pipesCreated)
          /\ g_input_handler = 1
          /\ g_r_main_thread \in Threads
          /\ <<1, -1>> \notin hist.initRets
          /\ \A q \in Live : FrameAt(q).op # "init"
\* C8 amended: once initialize has succeeded, every further initialize call
\* returns 0 and changes neither the owner identity, the pipe descriptors
\* nor the handler registration; at most one pipe is open at any time, and
\* after the success exactly one pipe is open and exactly one handler is
\* registered (an earlier failed call may have created and closed a pipe).
C8_InitIdempotent ==
    /\ []C8_InitializedState
    /\ [][g_async_initialized = 1 =>
            /\ g_async_initialized' = 1
            /\ UNCHANGED <<g_r_main_thread, g_request_pipe, g_input_handler>>
            /\ hist'.pipesCreated = hist.pipesCreated
            /\ hist'.handlersRegistered = hist.handlersRegistered]_vars
C8_Witness ==
    /\ g_async_initialized = 1
    /\ <<1, 0>> \in hist.initRets
    /\ hist.pipesCreated = 2

\* C9: the recorded owner-thread identity is written at most once and never
\* changes afterwards, whatever the initialize calls do.
C9_OwnerWrittenOnce ==
    [][g_r_main_thread # NoThread => g_r_main_thread' = g_r_main_thread]_vars

\* thread t's guard finds the re-entrance flag set and returns
DeniedStep(t) ==
    /\ ~Idle(t)
    /\ Top(t).pc = "g_check"
    /\ g_in_r_call = 1
    /\ stack'[t] # stack[t]
\* R_ToplevelExec returns on thread t
FinishStep(t) ==
    /\ ~Idle(t)
    /\ Top(t).pc = "g_run"
    /\ Len(stack'[t]) = Len(stack[t])
    /\ stack'[t] # stack[t]
\* C10: a guard entered while the re-entrance flag is set writes the
\* re-entrance error into its own request only, does not invoke the runtime
\* for it, and leaves the flag set and every other call's frame as it was;
\* the call in flight then ends with the result its own runtime invocation
\* produced, and its guard clears the flag.
C10_Reentrance ==
    /\ [](\A q \in Calls :
            FrameAt(q).pc = "ret" =>
                /\ FrameAt(q).rt # "none" => FrameAt(q).result = FrameAt(q).rt
                /\ FrameAt(q).result = "REENTRANCE" => FrameAt(q).rt = "none")
    /\ [][\A t \in Threads :
            /\ DeniedStep(t) =>
                 LET f == <<t, Depth(t)>>
                     r == ReqOf(f)
                 IN /\ g_in_r_call' = 1
                    /\ stack'[r[1]][r[2]].result = "REENTRANCE"
                    /\ stack'[r[1]][r[2]].rt = "none"
                    /\ stack'[t][Depth(t)].pc = AfterGuard(Top(t).op)
                    /\ \A q \in Live \ {f, r} : stack'[q[1]][q[2]] = FrameAt(q)
            /\ FinishStep(t) =>
                 LET r == ReqOf(<<t, Depth(t)>>)
                 IN /\ g_in_r_call' = 0
                    /\ stack'[r[1]][r[2]].result \in RuntimeOutcomes
                    /\ stack'[r[1]][r[2]].result = stack'[r[1]][r[2]].rt]_vars
\* a nested call has been denied while the outer call is still in the runtime
C10_Witness ==
    \E t \in Threads :
        /\ Depth(t) = 2
        /\ stack[t][1].pc = "g_run"
        /\ stack[t][2].pc = "ret"
        /\ stack[t][2].result = "REENTRANCE"
        /\ g_in_r_call = 1

\* C11: when the guarded runtime call is left by a non-local exit, the guard
\* still returns to its caller, the output is the guard's own error (never
\* what the callback had written so far), the re-entrance flag is cleared by
\* that return, and a guard entered while the flag is clear is accepted.
C11_AbortContained ==
    /\ [](\A q \in Calls :
            FrameAt(q).rt = "ABORTED" =>
                /\ FrameAt(q).result = "ABORTED"
                /\ FrameAt(q).error = 1
                /\ FrameAt(q).pc \in {"ret", "s_wait"})
    /\ [][\A t \in Threads :
            /\ FinishStep(t) =>
                 /\ g_in_r_call' = 0
                 /\ stack'[t][Depth(t)].pc = AfterGuard(Top(t).op)
            /\ (~Idle(t) /\ Top(t).pc = "g_check" /\ g_in_r_call = 0
                   /\ stack'[t] # stack[t]) =>
                 /\ Len(stack'[t]) = Len(stack[t])
                 /\ stack'[t][Depth(t)].pc = "g_set"]_vars
\* one call ended by a non-local exit has returned to its function with the
\* error, and a call on another thread is inside the runtime
C11_Witness ==
    \E q \in Calls, r \in Calls :
        /\ q[1] # r[1]
        /\ FrameAt(q).pc = "ret"
        /\ FrameAt(q).rt = "ABORTED"
        /\ FrameAt(q).result = "ABORTED"
        /\ FrameAt(r).pc = "g_run"
        /\ g_in_r_call = 1

\* the handler frames that hold a pointer to request q
HandlersOf(q) == {h \in Live : FrameAt(h).op = "handler" /\ FrameAt(h).ref = q}
\* request q went through the pipe and its submitter is back from the wait
Awaited(q) ==
    /\ FrameAt(q).op = "eval"
    /\ FrameAt(q).pc = "ret"
    /\ FrameAt(q).mutex = "destroyed"
    /\ FrameAt(q).result # "ASYNC_SUBMIT_ERROR"
\* C12: a worker is back from r_udf_submit_async_request with a result only
\* when done is set, and done is set only by a handler whose guard has
\* returned: the output is written (it is what the runtime produced for this
\* request, or the re-entrance error), the handler is past the point where
\* its guard cleared the flag, and no handler still holds the request.
C12_CompletionAfterGuard ==
    /\ [](\A q \in Calls :
            /\ FrameAt(q).done = 1 =>
                  /\ FrameAt(q).result \in RuntimeOutcomes \cup {"REENTRANCE"}
                  /\ FrameAt(q).rt # "none" => FrameAt(q).result = FrameAt(q).rt
                  /\ \A h \in HandlersOf(q) : FrameAt(h).pc = "h_unlock"
            /\ Awaited(q) =>
                  /\ FrameAt(q).done = 1
                  /\ HandlersOf(q) = {})
    /\ [][\A q \in Calls :
            (FrameAt(q).done = 0 /\ Len(stack'[q[1]]) >= q[2]
                                 /\ stack'[q[1]][q[2]].done = 1) =>
                /\ \E h \in HandlersOf(q) : FrameAt(h).pc = "h_lock" /\ h[2] = Depth(h[1])
                /\ stack'[q[1]][q[2]].result = FrameAt(q).result
                /\ g_in_r_call' = g_in_r_call]_vars
\* a worker is back with the value the handler's guarded call produced
C12_Witness ==
    \E q \in Calls :
        /\ Awaited(q)
        /\ FrameAt(q).rt = "VALUE"
        /\ FrameAt(q).result = "VALUE"

\* ------------------------------------------------------ claims on r_chan.c
IsPrefix(a, b) == Len(a) <= Len(b) /\ SubSeq(b, 1, Len(a)) = a
\* thread p takes a step of the call it is in
CStep(p) == cthread'[p] # cthread[p]
\* thread p returns from r_chan_send or r_chan_recv with value rv in this step
Returns(p, op, rv) ==
    /\ cthread[p].pc # "ret"
    /\ cthread'[p].op = op
    /\ cthread'[p].pc = "ret"
    /\ cthread'[p].rv = rv

\* C13: messages are dequeued in exactly the order in which their sends took
\* effect: what has been received so far, followed by what is queued, is the
\* sequence of messages in the order they were linked in.
C13_Fifo ==
    /\ IsPrefix(chist.deq, chist.enq)
    /\ chist.discarded = {} => chist.deq \o chan.q = chist.enq
\* two messages have been received in order, the second while its sender was
\* still inside r_chan_send
C13_Witness ==
    /\ chist.deq = <<1, 2>>
    /\ \E p \in CThreads : CAt(p, "send", "s_pipe")
    /\ \E p \in CThreads : CAt(p, "recv", "ret") /\ cthread[p].msg = 2

\* C14 as stated: after close every send fails with the closed condition:
\* a send call that is made, or that enters its critical section, on a
\* closed channel returns EPIPE.
C14_SendAfterCloseFailsClosed ==
    [][\A p \in CThreads :
          (chan.is_closed /\ cthread[p].pc \in {"none", "s_crit"}
                          /\ cthread'[p].op = "send" /\ cthread'[p].pc = "ret") =>
              cthread'[p].rv = "EPIPE"]_vars
\* C14 amended: a send made on a closed channel fails, with ENOMEM when the
\* node cannot be allocated (the allocation comes before the closed test)
\* and with EPIPE otherwise; once the channel is closed nothing is linked in
\* any more; and a send that fails (EPIPE or ENOMEM) leaves the queue, the
\* length, the closed flag and the pipe as they were.
C14_SendAfterClose ==
    [][/\ chan.is_closed =>
            /\ chist'.enq = chist.enq
            /\ Len(chan'.q) <= Len(chan.q)
       /\ \A p \in CThreads :
            /\ (CIdle(p) /\ chan.is_closed /\ cthread'[p].op = "send") =>
                   (Returns(p, "send", "ENOMEM") \/ cthread'[p].pc = "s_crit")
            /\ (CAt(p, "send", "s_crit") /\ chan.is_closed /\ CStep(p)) =>
                   Returns(p, "send", "EPIPE")
            /\ (Returns(p, "send", "EPIPE") \/ Returns(p, "send", "ENOMEM")) =>
                   /\ chan'.q = chan.q
                   /\ chan'.len = chan.len
                   /\ chan'.is_closed = chan.is_closed
                   /\ chan'.doorbell = chan.doorbell
                   /\ chan'.signal_pipe = chan.signal_pipe
                   /\ chist'.enq = chist.enq]_vars
\* a send on a closed channel that still holds a message has failed
C14_Witness ==
    \E p \in CThreads :
        /\ CAt(p, "send", "ret")
        /\ cthread[p].rv = "EPIPE"
        /\ chan.is_closed
        /\ chan.len = 1
        /\ chan.signal_pipe[2] >= 0

\* C15: in every timeout mode, an evaluation of recv's loop condition ends
\* in the closed failure exactly when the queue is empty and the channel
\* closed, and recv fails with EPIPE nowhere else; so when a recv has failed
\* with EPIPE, every message that was linked in has been received, in order.
C15_RecvClosed ==
    /\ [](\A p \in CThreads :
            (CAt(p, "recv", "ret") /\ cthread[p].rv = "EPIPE") =>
                /\ chan.is_closed
                /\ chan.q = <<>>
                /\ chist.deq = chist.enq)
    /\ [][\A p \in CThreads :
            /\ (CAt(p, "recv", "r_check") /\ CStep(p)) =>
                   (Returns(p, "recv", "EPIPE") <=> (chan.len = 0 /\ chan.is_closed))
            /\ Returns(p, "recv", "EPIPE") => CAt(p, "recv", "r_check")]_vars
\* the channel was closed with two messages queued; both have been received
\* and a no-wait recv has then failed with EPIPE
C15_Witness ==
    \E p \in CThreads :
        /\ CAt(p, "recv", "ret")
        /\ cthread[p].rv = "EPIPE"
        /\ cthread[p].timeout = "NO_WAIT"
        /\ chist.backlog = 2
        /\ chist.deq = <<1, 2>>

\* thread p is inside the wait loop of a block-forever recv
InWaitLoop(p) ==
    /\ cthread[p].op = "recv"
    /\ cthread[p].timeout = "NO_TIMEOUT"
    /\ cthread[p].pc \in {"r_wait", "r_woken", "r_check"}
C17_CloseIdempotent ==
    [][/\ chan.is_closed => chan'.is_closed
       /\ \A p \in CThreads :
            (CAt(p, "close", "c_crit") /\ CStep(p)) =>
                /\ chan'.is_closed
                /\ chan'.q = chan.q
                /\ chan'.len = chan.len
                /\ chan.is_closed =>
                      /\ chan' = [chan EXCEPT !.mtx = 0]
                      /\ \A w \in CThreads \ {p} : cthread'[w] = cthread[w]
                      /\ chist' = chist]_vars
\* two threads have each closed the channel, which still holds a message
C17_Witness ==
    /\ \A p \in CThreads : CAt(p, "close", "ret")
    /\ chan.is_closed
    /\ chan.len = 1

\* C18: r_chan_send never waits: it is never on the condition variable, it
\* returns 0, EPIPE or ENOMEM whatever the timeout, its critical section and
\* its pipe write can always be taken (whatever the length and however full
\* the pipe), and a write that finds the pipe full leaves the message queued
\* and the send returns 0.
C18_SendNeverWaits ==
    /\ [](\A p \in CThreads :
            cthread[p].op = "send" =>
                /\ p \notin chan.waiters
                /\ cthread[p].pc \in {"s_crit", "s_pipe", "ret"}
                /\ cthread[p].rv \in {"NONE", "OK", "EPIPE", "ENOMEM"}
                /\ cthread[p].pc = "s_crit" => ENABLED r_chan_send_Enqueue(p)
                /\ cthread[p].pc = "s_pipe" => ENABLED r_chan_send_Pipe(p))
    /\ [][\A p \in CThreads :
            (CAt(p, "send", "s_pipe") /\ chan.doorbell = PipeCap /\ CStep(p)) =>
                /\ Returns(p, "send", "OK")
                /\ chan' = chan
                /\ chist'.enq = chist.enq]_vars
\* a send has returned 0 after its doorbell write found the pipe full; its
\* message is in the queue
C18_Witness ==
    \E p \in CThreads :
        /\ CAt(p, "send", "ret")
        /\ cthread[p].rv = "OK"
        /\ chist.full = 1
        /\ chan.doorbell = PipeCap
        /\ Len(chan.q) = PipeCap + 1

\* the messages in sequence a
Range(a) == {a[i] : i \in 1..Len(a)}
OwnTag(hint) ==
    CASE hint = "Integer" -> "R_RESULT_INT"
      [] hint = "Float" -> "R_RESULT_DOUBLE"
      [] hint = "Bool" -> "R_RESULT_BOOL"
\* the numbers the hinted type can hold exactly
Holds(hint, v) ==
    CASE hint = "Integer" -> v.f = 0 /\ ~v.big
      [] hint = "Float" -> TRUE
      [] hint = "Bool" -> v.f = 0 /\ ~v.big /\ v.w \in {0, 1}
\* C20: when the result's tag is not the one the hint asks for (and the
\* result is neither an error, nor NULL, nor missing), the output is the same number
\* when the hinted type can hold it without loss, and otherwise an error:
\* never a changed value and never a missing one.
C20_CoerceLosslessOrError ==
    (/\ conv.pc = "out"
     /\ conv.res.type \notin {OwnTag(conv.hint), "R_RESULT_ERROR", "R_RESULT_NULL"}
     /\ conv.res.is_na = 0) =>
        /\ conv.res.type \in ScalarTags
        /\ Holds(conv.hint, conv.res.val)
        /\ conv.row = ValidRow(conv.res.val)

\* C27: a recv in no-wait mode that finds the channel empty and open returns
\* EAGAIN in that very evaluation of its loop condition, without going on
\* the condition variable, and leaves the queue, the links, the length, the
\* closed flag and the pipe as they were; it only releases the mutex.
C27_TryRecvEmpty ==
    /\ [](\A p \in CThreads :
            (cthread[p].op = "recv" /\ cthread[p].timeout = "NO_WAIT") =>
                /\ p \notin chan.waiters
                /\ cthread[p].pc \in {"r_check", "ret"})
    /\ [][\A p \in CThreads :
            (/\ CAt(p, "recv", "r_check")
             /\ cthread[p].timeout = "NO_WAIT"
             /\ chan.len = 0
             /\ ~chan.is_closed
             /\ CStep(p)) =>
                /\ Returns(p, "recv", "EAGAIN")
                /\ chan' = [chan EXCEPT !.mtx = 0]
                /\ chist' = chist]_vars
\* a no-wait recv has returned EAGAIN on an open channel with a pipe, after
\* the one message sent had been received
C27_Witness ==
    \E p \in CThreads :
        /\ CAt(p, "recv", "ret")
        /\ cthread[p].rv = "EAGAIN"
        /\ cthread[p].timeout = "NO_WAIT"
        /\ ~chan.is_closed
        /\ chan.signal_pipe[1] >= 0
        /\ chan.doorbell = 1
        /\ chist.deq = <<1>>

\* the messages of the nodes from h on, in list order (at most k of them)
RECURSIVE NodeSeq(_, _, _)
NodeSeq(h, next, k) ==
    IF h = 0 \/ k = 0 THEN <<>> ELSE <<h>> \o NodeSeq(next[h], next, k - 1)
\* C28: whenever the mutex is free, len is the number of nodes reachable
\* from head, head is NULL exactly when tail is NULL exactly when len is 0,
\* tail is the last node of the list (reachable, with a NULL next), and the
\* list holds the queued messages in order; and a step that changes len,
\* head, tail or a next field is taken by the thread that holds the mutex.
C28_LenAndLinks ==
    /\ [](chan.mtx = 0 =>
            /\ chan.len = Cardinality(ListFrom(chan.head, chan.next, MaxMsgs + 1))
            /\ chan.len = Len(NodeSeq(chan.head, chan.next, MaxMsgs + 1))
            /\ (chan.head = 0) <=> (chan.tail = 0)
            /\ (chan.head = 0) <=> (chan.len = 0)
            /\ chan.tail # 0 =>
                  /\ chan.tail \in ListFrom(chan.head, chan.next, MaxMsgs + 1)
                  /\ chan.next[chan.tail] = 0
            /\ NodeSeq(chan.head, chan.next, MaxMsgs + 1) = chan.q)
    /\ [][(\/ chan'.len # chan.len
           \/ chan'.head # chan.head
           \/ chan'.tail # chan.tail
           \/ chan'.next # chan.next) =>
              /\ chan.mtx # 0
              /\ CStep(chan.mtx)]_vars
\* nodes have been linked in and all but one unlinked again, and cleanup,
\* holding the mutex, is about to free the list of one node
C28_Witness ==
    /\ \E p \in CThreads : CAt(p, "cleanup", "x_free")
    /\ chan.len = 1
    /\ chan.head = chan.tail
    /\ Len(chist.deq) = MaxMsgs - 1

\* no message occurs twice in sequence a
NoDup(a) == \A i, j \in 1..Len(a) : a[i] = a[j] => i = j
\* the messages of the send calls that have failed so far
FailedSends ==
    {m \in 1..chist.nsend :
        /\ m \notin Range(chist.enq)
        /\ \A p \in CThreads : ~(CAt(p, "send", "s_crit") /\ cthread[p].msg = m)}
\* C30: under every interleaving, each message is linked in at most once and
\* received at most once; a message that was linked in is in exactly one
\* place: received, still queued, or freed by cleanup; a send returns 0
\* only after it linked its message in, and a send that fails links nothing
\* in, so its message is never received; a recv that returns 0 returns the
\* message of the node it unlinked.
C30_ExactlyOnce ==
    /\ [](/\ NoDup(chist.enq)
          /\ NoDup(chist.deq)
          /\ NoDup(chan.q)
          /\ Range(chist.enq) = Range(chist.deq) \cup Range(chan.q) \cup chist.discarded
          /\ Range(chist.deq) \cap Range(chan.q) = {}
          /\ Range(chist.deq) \cap chist.discarded = {}
          /\ Range(chan.q) \cap chist.discarded = {}
          /\ FailedSends \cap Range(chist.deq) = {})
    /\ [][\A p \in CThreads :
            /\ Returns(p, "send", "OK") => CAt(p, "send", "s_pipe")
            /\ cthread'[p].pc = "s_pipe" /\ CStep(p) =>
                  chist'.enq = Append(chist.enq, cthread[p].msg)
            /\ (Returns(p, "send", "EPIPE") \/ Returns(p, "send", "ENOMEM")) =>
                  /\ chist'.enq = chist.enq
                  /\ chan'.q = chan.q
            /\ Returns(p, "recv", "OK") =>
                  /\ chan.q # <<>>
                  /\ cthread'[p].msg = Head(chan.q)
                  /\ chan'.q = Tail(chan.q)
                  /\ chist'.deq = Append(chist.deq, Head(chan.q))
            /\ (Returns(p, "recv", "EAGAIN") \/ Returns(p, "recv", "EPIPE")
                    \/ Returns(p, "recv", "ETIMEDOUT")) =>
                  /\ chist'.deq = chist.deq
                  /\ chan'.q = chan.q]_vars
\* of two messages sent, one has been received and the other was freed by
\* cleanup
C30_Witness ==
    /\ chan.destroyed
    /\ Len(chist.deq) = 1
    /\ Cardinality(chist.discarded) = 1
    /\ Len(chist.enq) = 2

\* C26: the deadline of a recv with a relative timeout T is fixed once, when
\* the call first waits: whenever such a recv is in its timed wait on an
\* empty, open channel, the wait ends at that time plus T, also after the
\* receiver was woken and waits again, so that the recv has waited at most
\* T in all when it returns the timed-out condition.
C26_DeadlineFixedOnce ==
    \A p \in CThreads :
        (/\ CAt(p, "recv", "r_wait")
         /\ cthread[p].timeout = "RELATIVE"
         /\ chan.len = 0
         /\ ~chan.is_closed) =>
            timer.abs_time[p] = timer.start[p] + RelTimeout

\* the consumer has finished and every send that was in progress is over
Quiet == CIdle(Consumer) /\ \A p \in Senders : CIdle(p)
\* C25 as stated: whichever of the two orders the callback takes, once it
\* has finished and no send is in progress, a non-empty queue has a doorbell
\* byte pending.
C25_EitherDrainOrder == Quiet => (chan.len > 0 => chan.doorbell > 0)
\* C25 amended: that holds when the latest callback drained the pipe before
\* it drained the queue (or no callback has run yet).
C25_DrainFirstOrder ==
    (Quiet /\ chist.order # "drain_last") => (chan.len > 0 => chan.doorbell > 0)
\* a callback that drained the pipe first has received a message and
\* finished, while a message sent during it is queued with its doorbell
\* byte pending
C25_Witness ==
    /\ Quiet
    /\ chist.order = "drain_first"
    /\ chan.len > 0
    /\ chan.doorbell > 0
    /\ Len(chist.deq) > 0

\* ------------------------------------------------ claims on the entry points
\* the guard let the call in: no call to R was in flight
Admitted == g_in_r_call = 0
FourTypes == {"LGLSXP", "INTSXP", "REALSXP", "STRSXP"}
ScalarTagOf(t) ==
    CASE t = "LGLSXP" -> "R_RESULT_BOOL"
      [] t = "INTSXP" -> "R_RESULT_INT"
      [] t = "REALSXP" -> "R_RESULT_DOUBLE"
      [] t = "STRSXP" -> "R_RESULT_STRING"
VectorTagOf(t) ==
    CASE t = "LGLSXP" -> "R_RESULT_BOOL_ARRAY"
      [] t = "INTSXP" -> "R_RESULT_INT_ARRAY"
      [] t = "REALSXP" -> "R_RESULT_DOUBLE_ARRAY"
      [] t = "STRSXP" -> "R_RESULT_STRING_ARRAY"
Converted == conv.pc \in {"result", "done"} /\ conv.fn \in TypedFns /\ Admitted

\* C24: the conversion picks the tag from the type and the length of the
\* value alone: a logical, integer, real or string value of length exactly 1
\* gets the scalar tag, one of any other length, 0 included, the vector tag,
\* and R's NULL gets R_RESULT_NULL.
C24_TagFromTypeAndLength ==
    Converted =>
        /\ conv.rt.type = "NILSXP" => conv.res.type = "R_RESULT_NULL"
        /\ conv.rt.type \in FourTypes =>
              conv.res.type = IF Len(conv.rt.elems) = 1 THEN ScalarTagOf(conv.rt.type)
                              ELSE VectorTagOf(conv.rt.type)

\* an integer vector of length 0 was converted, to an integer array
C24_Witness ==
    /\ Converted
    /\ conv.rt.type = "INTSXP"
    /\ conv.rt.elems = <<>>
    /\ conv.res.type = "R_RESULT_INT_ARRAY"

\* the expression evaluated to a single NA of one of the four scalar types
ScalarNA ==
    /\ conv.rt.type \in FourTypes
    /\ Len(conv.rt.elems) = 1
    /\ conv.rt.elems[1].na
ListFns == {"r_vector_int", "r_vector_double", "r_vector_varchar", "r_vector_bool"}
\* the row holds no present value: it is NULL, or a list none of whose
\* elements is valid
NoPresentValue ==
    IF conv.fn \in ListFns
    THEN \A i \in 1..Len(conv.out.list) : ~conv.out.list[i].valid
    ELSE ~conv.out.valid

\* C22: for every scalar tag a missing value of R is converted to a result
\* with is_na set, and every typed output function turns that result into
\* a missing value, never into a present one.
C22_MissingRoundTrip ==
    (Converted /\ ScalarNA) =>
        /\ conv.res.is_na = 1
        /\ conv.res.type = ScalarTagOf(conv.rt.type)
        /\ conv.pc = "done" => (~conv.out.err /\ NoPresentValue)

\* the call failed: the guard denied it, or the parser, the evaluation or
\* R_ToplevelExec did
Failed == ~Admitted \/ (conv.parsed /\ conv.rt \in RFailures)

\* C21: every failed call reaches the caller of every entry point as an
\* error, never as a row with a value and never as a NULL row.
C21_FailuresAreErrors ==
    (conv.pc = "done" /\ Failed) => conv.out.err

\* C23 as stated: when the injected value is NULL, rx and rx_str give a
\* missing value and not an error, for every expression, without calling
\* the parser and without defining .x.
C23_MissingInjectedAlways ==
    (conv.pc \in {"result", "done"} /\ conv.fn \in InjectFns /\ conv.x_is_null = 1) =>
        /\ conv.res.is_na = 1
        /\ conv.res.type # "R_RESULT_ERROR"
        /\ ~conv.parsed
        /\ ~conv.bound
        /\ conv.pc = "done" => (~conv.out.err /\ ~conv.out.valid)

\* C23 amended: when the injected value is NULL and the guard lets the call
\* in, rx and rx_str give a missing value and not an error, for every
\* expression, without calling the parser and without defining .x.
C23_MissingInjectedWhenAdmitted ==
    Admitted => C23_MissingInjectedAlways

\* rx_str was called with a NULL value and an expression that does not
\* parse, the guard let it in, and the row is NULL
C23_Witness ==
    /\ conv.pc = "done"
    /\ conv.fn = "rx_str"
    /\ conv.x_is_null = 1
    /\ conv.rt.type = "PARSE_ERROR"
    /\ Admitted
    /\ conv.res.is_na = 1
    /\ ~conv.out.err
    /\ ~conv.out.valid

RangeOf(q) == {q[i] : i \in 1..Len(q)}
\* the member of the union that belongs to a tag
ActiveMember(type) ==
    CASE type = "R_RESULT_BOOL" -> {"bool_val"}
      [] type = "R_RESULT_INT" -> {"int_val"}
      [] type = "R_RESULT_DOUBLE" -> {"double_val"}
      [] type = "R_RESULT_STRING" -> {"string_val"}
      [] type = "R_RESULT_RAW" -> {"raw"}
      [] type = "R_RESULT_BOOL_ARRAY" -> {"bool_array"}
      [] type = "R_RESULT_INT_ARRAY" -> {"int_array"}
      [] type = "R_RESULT_DOUBLE_ARRAY" -> {"double_array"}
      [] type = "R_RESULT_STRING_ARRAY" -> {"string_array"}
      [] OTHER -> {}
\* the tags whose results own no storage
NoStorageTags ==
    {"R_RESULT_NULL", "R_RESULT_BOOL", "R_RESULT_INT", "R_RESULT_DOUBLE", "R_RESULT_ERROR"}

\* C29: when a call is over, the blocks passed to free() are exactly the
\* blocks the callback allocated for the result, each once; nothing is
\* freed for a result whose tag owns no storage or that is missing; and no
\* member of the union other than that of the active tag was read.
C29_ReleaseExactlyActive ==
    conv.pc = "done" =>
        /\ RangeOf(conv.out.freed) = conv.allocs
        /\ Len(conv.out.freed) = Cardinality(conv.allocs)
        /\ (conv.res.type \in NoStorageTags \/ conv.res.is_na # 0) => conv.out.freed = <<>>
        /\ conv.out.reads \subseteq ActiveMember(conv.res.type)

\* a string array with an NA element and a string was released: the string
\* and the array were freed
C29_Witness ==
    /\ conv.pc = "done"
    /\ conv.res.type = "R_RESULT_STRING_ARRAY"
    /\ \E i \in 1..Len(conv.res.elts) : conv.res.elts[i].na
    /\ Len(conv.out.freed) >= 2

\* ------------------------------------------------ claims on the dispatch, II
\* C33: when initialize fails (the pipe cannot be created, or the handler
\* cannot be registered) the step that returns -1 leaves the initialized
\* flag 0, both stored descriptors -1, no pipe open, no handler stored and
\* the init mutex released; and whenever no initialize call is in progress
\* and none has succeeded, the state an initialize call reads is the one the
\* first call found, so a later call can still succeed.
C33_FailedInitLeavesClean ==
    /\ [](g_async_initialized = 0 /\ g_init_mutex = NoThread =>
            /\ g_request_pipe = <<-1, -1>>
            /\ g_input_handler = 0
            /\ hist.pipesOpen = 0
            /\ \A q \in Live : FrameAt(q).op # "init")
    /\ [][hist'.initFails > hist.initFails =>
            /\ g_async_initialized' = 0
            /\ g_request_pipe' = <<-1, -1>>
            /\ hist'.pipesOpen = 0
            /\ g_init_mutex' = NoThread
            /\ <<0, -1>> \in hist'.initRets]_vars
\* a registration failed after its pipe was created, and a later call
\* succeeded
C33_Witness ==
    /\ hist.initFails >= 1
    /\ hist.pipesCreated = 2
    /\ g_async_initialized = 1
    /\ g_request_pipe = PipeFds(2)
    /\ g_init_mutex = NoThread
    /\ <<0, 0>> \in hist.initRets

\* the handler runs in progress
HandlerRuns == {h \in Live : FrameAt(h).op = "handler"}
\* C31: each run of the input handler that has read a request pointer
\* completes exactly that request, once, on every path.  The request is a
\* live one whose submitter is in its wait, no other run holds it and it is
\* no longer in the pipe; until the run reaches the completion the
\* request's done is clear, and from the completion to the run's return it
\* is set with the request's mutex held; the run returns only from there,
\* whatever its guarded call ended in (a value, an evaluation error, a
\* non-local exit, the re-entrance denial); done is set only by the run
\* that holds the request, in the step that signals; and a request that is
\* not an evaluation request is completed without entering the guard.
C31_HandlerCompletesOnce ==
    /\ [](\A h \in HandlerRuns :
            LET r == FrameAt(h).ref IN
              /\ Exists(r)
              /\ FrameAt(r).op = "eval"
              /\ FrameAt(r).pc = "s_wait"
              /\ HandlersOf(r) = {h}
              /\ \A i \in 1..Len(pipeBuf) : pipeBuf[i] # r
              /\ FrameAt(h).pc \in {"g_check", "g_set", "g_run", "h_lock", "h_unlock"}
              /\ FrameAt(h).pc # "h_unlock" =>
                    (FrameAt(r).done = 0 /\ FrameAt(r).mutex = "free")
              /\ FrameAt(h).pc = "h_unlock" =>
                    /\ FrameAt(r).done = 1
                    /\ FrameAt(r).mutex = "held"
              /\ FrameAt(h).pc \in {"h_lock", "h_unlock"} =>
                    /\ FrameAt(r).type = "R_UDF_REQUEST_EVAL" =>
                          FrameAt(r).result \in RuntimeOutcomes \cup {"REENTRANCE"}
                    /\ FrameAt(r).type # "R_UDF_REQUEST_EVAL" =>
                          (FrameAt(r).rt = "none" /\ FrameAt(r).result = "unset")
              /\ FrameAt(r).type # "R_UDF_REQUEST_EVAL" =>
                    FrameAt(h).pc \in {"h_lock", "h_unlock"})
    /\ [][\A h \in HandlerRuns :
            LET r == FrameAt(h).ref
                gone == Len(stack'[h[1]]) < h[2]
            IN /\ gone => (FrameAt(h).pc = "h_unlock" /\ stack'[r[1]][r[2]].done = 1)
               /\ ~gone => /\ stack'[h[1]][h[2]].op = "handler"
                           /\ stack'[h[1]][h[2]].ref = r
                           /\ FrameAt(h).pc = "h_unlock" =>
                                 stack'[h[1]][h[2]] = FrameAt(h)
               /\ stack'[r[1]][r[2]].done # FrameAt(r).done =>
                     /\ FrameAt(h).pc = "h_lock"
                     /\ stack'[h[1]][h[2]].pc = "h_unlock"]_vars
\* a run is at its completion for a request whose evaluation ended in an
\* error: done is set and the submitter is still in its wait
C31_Witness ==
    \E h \in HandlerRuns :
        /\ FrameAt(h).pc = "h_unlock"
        /\ FrameAt(FrameAt(h).ref).done = 1
        /\ FrameAt(FrameAt(h).ref).result = "EVAL_ERROR"
        /\ FrameAt(FrameAt(h).ref).error = 1
        /\ FrameAt(FrameAt(h).ref).pc = "s_wait"

\* the guarded calls in flight on handler run h's thread, below the run
InFlightBelow(h) ==
    {c \in Live : c[1] = h[1] /\ c[2] < h[2] /\ FrameAt(c).pc = "g_run"}
\* C32: a handler run that picks up a request while a guarded call is in
\* flight on its thread is denied: it never enters the runtime, its step
\* from the guard's test writes the re-entrance error to the request and
\* goes to the completion, and no step of the run changes the frame of the
\* call in flight.
C32_NestedRequestDenied ==
    /\ [](\A h \in HandlerRuns :
            InFlightBelow(h) # {} =>
                /\ FrameAt(h).pc \in {"g_check", "h_lock", "h_unlock"}
                /\ FrameAt(h).pc # "g_check" =>
                      /\ FrameAt(FrameAt(h).ref).result = "REENTRANCE"
                      /\ FrameAt(FrameAt(h).ref).error = 1
                      /\ FrameAt(FrameAt(h).ref).rt = "none")
    /\ [][\A h \in HandlerRuns :
            (InFlightBelow(h) # {} /\ h[2] = Depth(h[1])
                                  /\ stack'[h[1]] # stack[h[1]]) =>
                \A c \in InFlightBelow(h) : stack'[c[1]][c[2]] = FrameAt(c)]_vars

\* ------------------------------------------------ claims on the scans
\* the first scan of the bind, and a later one
FirstScan == conv.pc = "scan" /\ conv.scans = 0 /\ conv'.scans = 1
LaterScan == conv.pc = "scan" /\ conv.scans >= 1 /\ conv'.scans = conv.scans + 1
\* the scan handed back one row, or raised an error and set no chunk size
RowOrError ==
    \/ conv'.size = 1 /\ ~conv'.err /\ conv'.rows = conv.rows + 1
    \/ conv'.size = -1 /\ conv'.err /\ conv'.rows = conv.rows
\* it handed back an empty chunk and did not enter R
EmptyAndIdle ==
    /\ conv'.size = 0
    /\ ~conv'.err
    /\ conv'.rows = conv.rows
    /\ conv'.invoked = conv.invoked
    /\ conv'.done = 1
C35_DeadlineNormalised ==
    conv.pc = "pthread_cond_timedwait" =>
        LET a == conv.abs_time
            d == a.tv_sec - (conv.now.tv_sec + conv.timeout.tv_sec)
        IN  /\ a.tv_nsec >= 0
            /\ a.tv_nsec < NSEC_PER_SEC
            /\ d \in {0, 1}
            /\ d * NSEC_PER_SEC = conv.now.tv_nsec + conv.timeout.tv_nsec - a.tv_nsec
            /\ a.sum <= 2147483647
\* the two tv_nsec add up to exactly a second: the carry is made and the
\* deadline's tv_nsec is 0
C35_Witness ==
    /\ conv.pc = "pthread_cond_timedwait"
    /\ conv.now.tv_nsec = NSEC_PER_SEC - 1
    /\ conv.timeout.tv_nsec = 1
    /\ conv.abs_time.tv_nsec = 0
    /\ conv.abs_time.tv_sec = conv.now.tv_sec + conv.timeout.tv_sec + 1

====
